---------------------------- MODULE Spec2Model ----------------------------
(***************************************************************************)
(* mint-lite: the transaction ingest pipeline (ingest.js, server.js) and   *)
(* the keyword categorizer (lib.js), over the SQLite schema of init.sql.   *)
(*                                                                         *)
(* Text is modelled as a sequence of one-character strings, so that        *)
(* toLowerCase, the template-string concatenation and the regular          *)
(* expressions of categorize are computed character by character.          *)
(***************************************************************************)
EXTENDS Naturals, Integers, Sequences, FiniteSets, TLC

VARIABLES
  plaid_items,    \* table plaid_items: sequence of rows, in rowid order
  transactions,   \* table transactions: sequence of rows, in rowid order
  run,            \* per ingest run: position, locals and outcome
  hist,           \* per ingest run: what the run saw and did (history)
  lastDone,       \* history of the most recently completed run, or NoRun
  provider,       \* per item id: what transactionsGet answers at present
  epoch,          \* number of times the provider's data has changed
  started,        \* number of ingest runs begun so far
  catIn,          \* arguments of the last categorize call of the harness
  catOut,         \* its result
  catPrev,        \* the result of the call before it, with the same arguments
  env,            \* process.env: the variables that are set (fixed at start)
  proc,           \* per process: not started, failed at startup, or up
  accounts,       \* table accounts: sequence of rows, in rowid order
  acct,           \* the account fetch script: position and locals
  link,           \* the last POST /exchange-token: response and effect
  clock,          \* Date.now(), in units of UnitsPerDay to the day
  argv,           \* process.argv.slice(2) of node ingest.js
  http,           \* the last request answered outside an ingest run
  daily,          \* the auto-daily workflow: position, children, results
  cryptoIn,       \* arguments of the encrypt/decrypt calls of the harness
  cryptoOut,      \* their results
  mig             \* what the last run of migrateTokens returned

\* what an ingest run reads at most
opsVars == <<clock, argv, http, daily, cryptoIn, cryptoOut>>

\* what the ingest pipeline and the categorizer leave alone
adminVars == <<env, proc, accounts, acct, opsVars, mig>>

vars ==
  <<plaid_items, transactions, run, hist, lastDone, provider, epoch, started,
    catIn, catOut, catPrev, link, adminVars>>

-----------------------------------------------------------------------------
(* Bounds of the model *)

\* linked items (rows of plaid_items)
MaxItems == 2
\* ingest runs that may be in progress at once (CLI process, HTTP handlers)
MaxRuns == 2
\* ingest runs begun in one behaviour
MaxStarts == 2
\* changes of the provider's data in one behaviour
MaxChanges == 1

-----------------------------------------------------------------------------
(* Text *)

\* JavaScript null / undefined for an optional text field
Null == <<"<null>">>

\* x || d
OrElse(x, d) == IF x = Null \/ x = <<>> THEN d ELSE x

Upper ==
  <<"A","B","C","D","E","F","G","H","I","J","K","L","M",
    "N","O","P","Q","R","S","T","U","V","W","X","Y","Z">>

Lower ==
  <<"a","b","c","d","e","f","g","h","i","j","k","l","m",
    "n","o","p","q","r","s","t","u","v","w","x","y","z">>

\* String.prototype.toLowerCase, one character
lowerChar(c) ==
  IF \E i \in 1..Len(Upper) : Upper[i] = c
  THEN Lower[CHOOSE i \in 1..Len(Upper) : Upper[i] = c]
  ELSE c

\* String.prototype.toLowerCase
toLowerCase(s) == [i \in 1..Len(s) |-> lowerChar(s[i])]

\* s.match(/k1|k2|.../): some alternative occurs somewhere in s
match(s, pattern) ==
  \E kw \in pattern :
    \E i \in 1..(Len(s) + 1 - Len(kw)) : SubSeq(s, i, i + Len(kw) - 1) = kw

\* Array.prototype.join(',') of an array of texts
RECURSIVE join(_)
join(parts) ==
  IF Len(parts) = 0 THEN <<>>
  ELSE IF Len(parts) = 1 THEN parts[1]
  ELSE parts[1] \o <<",">> \o join(Tail(parts))

Digits == <<"0","1","2","3","4","5","6","7","8","9">>

IsDigit(c) == \E d \in 1..10 : Digits[d] = c

DigitValue(c) == (CHOOSE d \in 1..10 : Digits[d] = c) - 1

\* s.startsWith(prefix)
startsWith(s, prefix) ==
  Len(s) >= Len(prefix) /\ SubSeq(s, 1, Len(prefix)) = prefix

\* the part of s before the first sep, and the part after it
RECURSIVE beforeSep(_, _)
beforeSep(s, sep) ==
  IF Len(s) = 0 \/ s[1] = sep THEN <<>> ELSE <<s[1]>> \o beforeSep(Tail(s), sep)

RECURSIVE afterSep(_, _)
afterSep(s, sep) ==
  IF Len(s) = 0 THEN <<>>
  ELSE IF s[1] = sep THEN Tail(s) ELSE afterSep(Tail(s), sep)

-----------------------------------------------------------------------------
(* Categorizer: lib.js categorize *)

\* /shell|exxon|chevron|bp |gas station|fuel|mobil/
FuelPattern ==
  { <<"s","h","e","l","l">>,
    <<"e","x","x","o","n">>,
    <<"c","h","e","v","r","o","n">>,
    <<"b","p"," ">>,
    <<"g","a","s"," ","s","t","a","t","i","o","n">>,
    <<"f","u","e","l">>,
    <<"m","o","b","i","l">> }

\* /walmart|publix|costco|kroger|whole foods|trader joe|safeway|grocery/
GroceriesPattern ==
  { <<"w","a","l","m","a","r","t">>,
    <<"p","u","b","l","i","x">>,
    <<"c","o","s","t","c","o">>,
    <<"k","r","o","g","e","r">>,
    <<"w","h","o","l","e"," ","f","o","o","d","s">>,
    <<"t","r","a","d","e","r"," ","j","o","e">>,
    <<"s","a","f","e","w","a","y">>,
    <<"g","r","o","c","e","r","y">> }

\* /starbucks|dunkin|coffee/
CoffeePattern ==
  { <<"s","t","a","r","b","u","c","k","s">>,
    <<"d","u","n","k","i","n">>,
    <<"c","o","f","f","e","e">> }

\* /home depot|lowes|hardware/
HomeImprovementPattern ==
  { <<"h","o","m","e"," ","d","e","p","o","t">>,
    <<"l","o","w","e","s">>,
    <<"h","a","r","d","w","a","r","e">> }

\* /restaurant|dining|pizza|burger|chipotle|panera/
RestaurantPattern ==
  { <<"r","e","s","t","a","u","r","a","n","t">>,
    <<"d","i","n","i","n","g">>,
    <<"p","i","z","z","a">>,
    <<"b","u","r","g","e","r">>,
    <<"c","h","i","p","o","t","l","e">>,
    <<"p","a","n","e","r","a">> }

\* /electric|water|utility|internet|cable|phone/
UtilitiesPattern ==
  { <<"e","l","e","c","t","r","i","c">>,
    <<"w","a","t","e","r">>,
    <<"u","t","i","l","i","t","y">>,
    <<"i","n","t","e","r","n","e","t">>,
    <<"c","a","b","l","e">>,
    <<"p","h","o","n","e">> }

\* confidence in tenths: 0.9
ConfMatched == 9
\* confidence in tenths: 0.3
ConfDefault == 3

\* `${name || ''} ${merchant || ''} ${rawCategory || ''}`.toLowerCase()
combined(name, merchant, rawCategory) ==
  toLowerCase(OrElse(name, <<>>) \o <<" ">> \o OrElse(merchant, <<>>)
              \o <<" ">> \o OrElse(rawCategory, <<>>))

\* the rules of categorize with the restaurant rule tried first
categorizeRestaurantFirst(name, merchant, rawCategory) ==
  LET c == combined(name, merchant, rawCategory) IN
  IF match(c, RestaurantPattern)
    THEN [category |-> "Dining:Restaurant", confidence |-> ConfMatched]
  ELSE IF match(c, FuelPattern)
    THEN [category |-> "Auto:Fuel", confidence |-> ConfMatched]
  ELSE IF match(c, GroceriesPattern)
    THEN [category |-> "Groceries", confidence |-> ConfMatched]
  ELSE IF match(c, CoffeePattern)
    THEN [category |-> "Dining:Coffee", confidence |-> ConfMatched]
  ELSE IF match(c, HomeImprovementPattern)
    THEN [category |-> "Property:Materials", confidence |-> ConfMatched]
  ELSE IF match(c, UtilitiesPattern)
    THEN [category |-> "Utilities", confidence |-> ConfMatched]
  ELSE [category |-> "Uncategorized", confidence |-> ConfDefault]

\* the rules of categorize with a lower confidence for the last rule
categorizeGraded(name, merchant, rawCategory) ==
  LET c == combined(name, merchant, rawCategory) IN
  IF match(c, FuelPattern)
    THEN [category |-> "Auto:Fuel", confidence |-> ConfMatched]
  ELSE IF match(c, GroceriesPattern)
    THEN [category |-> "Groceries", confidence |-> ConfMatched]
  ELSE IF match(c, CoffeePattern)
    THEN [category |-> "Dining:Coffee", confidence |-> ConfMatched]
  ELSE IF match(c, HomeImprovementPattern)
    THEN [category |-> "Property:Materials", confidence |-> ConfMatched]
  ELSE IF match(c, RestaurantPattern)
    THEN [category |-> "Dining:Restaurant", confidence |-> ConfMatched]
  ELSE IF match(c, UtilitiesPattern)
    THEN [category |-> "Utilities", confidence |-> ConfMatched - ConfDefault]
  ELSE [category |-> "Uncategorized", confidence |-> ConfDefault]

\* the rules of categorize with regular expressions that keep their position
\* between calls (flag g): after a call that matched, the next call on the
\* same text finds no match
categorizeSticky(name, merchant, rawCategory) ==
  LET c == combined(name, merchant, rawCategory) IN
  IF catOut # [none |-> TRUE] /\ catOut.confidence = ConfMatched
    THEN [category |-> "Uncategorized", confidence |-> ConfDefault]
  ELSE IF match(c, FuelPattern)
    THEN [category |-> "Auto:Fuel", confidence |-> ConfMatched]
  ELSE IF match(c, GroceriesPattern)
    THEN [category |-> "Groceries", confidence |-> ConfMatched]
  ELSE IF match(c, CoffeePattern)
    THEN [category |-> "Dining:Coffee", confidence |-> ConfMatched]
  ELSE IF match(c, HomeImprovementPattern)
    THEN [category |-> "Property:Materials", confidence |-> ConfMatched]
  ELSE IF match(c, RestaurantPattern)
    THEN [category |-> "Dining:Restaurant", confidence |-> ConfMatched]
  ELSE IF match(c, UtilitiesPattern)
    THEN [category |-> "Utilities", confidence |-> ConfMatched]
  ELSE [category |-> "Uncategorized", confidence |-> ConfDefault]

categorize(name, merchant, rawCategory) ==
  LET c == combined(name, merchant, rawCategory) IN
  IF match(c, FuelPattern)
    THEN [category |-> "Auto:Fuel", confidence |-> ConfMatched]
  ELSE IF match(c, GroceriesPattern)
    THEN [category |-> "Groceries", confidence |-> ConfMatched]
  ELSE IF match(c, CoffeePattern)
    THEN [category |-> "Dining:Coffee", confidence |-> ConfMatched]
  ELSE IF match(c, HomeImprovementPattern)
    THEN [category |-> "Property:Materials", confidence |-> ConfMatched]
  ELSE IF match(c, RestaurantPattern)
    THEN [category |-> "Dining:Restaurant", confidence |-> ConfMatched]
  ELSE IF match(c, UtilitiesPattern)
    THEN [category |-> "Utilities", confidence |-> ConfMatched]
  ELSE [category |-> "Uncategorized", confidence |-> ConfDefault]

-----------------------------------------------------------------------------
(* Sample texts: the inputs the model draws from *)

NameShellDiner == <<"S","H","E","L","L"," ","D","I","N","E","R">>  \* "SHELL DINER"
NameAcme == <<"A","C","M","E"," ","W","I","D","G","E","T","S"," ","C","O","R","P">>  \* "ACME WIDGETS CORP"
NameCostcoGas == <<"C","o","s","t","c","o"," ","G","a","s"," ","S","t","a","t","i","o","n">>  \* "Costco Gas Station"
NameStarbucksPizza == <<"S","T","A","R","B","U","C","K","S"," ","P","I","Z","Z","A">>  \* "STARBUCKS PIZZA"
NameBP == <<"B","P">>  \* "BP"
NameLowes == <<"L","o","w","e","s"," ","H","a","r","d","w","a","r","e">>  \* "Lowes Hardware"
NameWaterBill == <<"W","a","t","e","r"," ","B","i","l","l">>  \* "Water Bill"
NameBurgerPhone == <<"B","u","r","g","e","r"," ","P","h","o","n","e">>  \* "Burger Phone"
NameCheck == <<"C","h","e","c","k"," ","1","0","4","2">>  \* "Check 1042"
MerchantExxon == <<"E","x","x","o","n">>  \* "Exxon"
MerchantKroger == <<"K","r","o","g","e","r">>  \* "Kroger"
MerchantDunkin == <<"D","u","n","k","i","n">>  \* "Dunkin"
MerchantHomeDepot == <<"H","o","m","e"," ","D","e","p","o","t">>  \* "Home Depot"
CatFood == <<"F","o","o","d"," ","a","n","d"," ","D","r","i","n","k">>  \* "Food and Drink"
CatRestaurants == <<"R","e","s","t","a","u","r","a","n","t","s">>  \* "Restaurants"
CatTravel == <<"T","r","a","v","e","l">>  \* "Travel"
CatGasStations == <<"G","a","s"," ","S","t","a","t","i","o","n","s">>  \* "Gas Stations"
CatService == <<"S","e","r","v","i","c","e">>  \* "Service"
CatCable == <<"C","a","b","l","e">>  \* "Cable"

CatInNames ==
  { NameShellDiner, NameAcme, NameCostcoGas, NameStarbucksPizza, NameBP,
    NameLowes, NameWaterBill, NameBurgerPhone, NameCheck, <<>>, Null }

CatInMerchants ==
  { Null, MerchantExxon, MerchantKroger, MerchantDunkin, MerchantHomeDepot }

CatInRawCategories ==
  { Null, <<>>, join(<<CatFood, CatRestaurants>>),
    join(<<CatTravel, CatGasStations>>), join(<<CatService, CatCable>>) }

-----------------------------------------------------------------------------
(* The aggregation provider: what transactionsGet may return *)

ItemIds == 1..MaxItems

\* name, merchant_name, category of a provider transaction are modelled; the
\* remaining fields (account_id, amount, iso_currency_code, date) are stored
\* verbatim. TxnShellEdited has the id of TxnShell and another text.
TxnShell ==
  [transaction_id |-> "t1", name |-> NameShellDiner, merchant_name |-> Null,
   category |-> Null]

TxnShellEdited ==
  [transaction_id |-> "t1", name |-> NameAcme, merchant_name |-> MerchantDunkin,
   category |-> <<CatFood, CatRestaurants>>]

TxnDunkin ==
  [transaction_id |-> "t2", name |-> NameAcme, merchant_name |-> MerchantDunkin,
   category |-> <<CatFood, CatRestaurants>>]

ProviderTxns == {TxnShell, TxnShellEdited, TxnDunkin}

\* response.data.transactions of a successful transactionsGet
Responses ==
  { <<>>, <<TxnShell>>, <<TxnShell, TxnDunkin>>, <<TxnShellEdited, TxnShell>>,
    <<TxnDunkin, TxnShellEdited>> }

\* the provider's answer for an item: not yet asked, a rejection, a response
Unknown == [state |-> "unknown", txns |-> <<>>]

Rejects == [state |-> "rejects", txns |-> <<>>]

Answers(resp) == [state |-> "answers", txns |-> resp]

-----------------------------------------------------------------------------
(* Storage: init.sql *)

\* transactions.transaction_id TEXT UNIQUE NOT NULL
ViolatesUnique(table, row) ==
  \E j \in 1..Len(table) : table[j].transaction_id = row.transaction_id

\* INSERT OR REPLACE: the conflicting row is deleted and the new one stored
InsertOrReplace(table, row) ==
  SelectSeq(table, LAMBDA old : old.transaction_id # row.transaction_id)
    \o <<row>>

\* INSERT ... ON CONFLICT (transaction_id) DO UPDATE: the conflicting row
\* takes the new values in place
InsertOrUpdate(table, row) ==
  IF \E j \in 1..Len(table) : table[j].transaction_id = row.transaction_id
  THEN [j \in 1..Len(table) |->
          IF table[j].transaction_id = row.transaction_id THEN row ELSE table[j]]
  ELSE Append(table, row)

\* INSERT with no UNIQUE constraint on the table
InsertUnconstrained(table, row) == Append(table, row)

\* INSERT OR IGNORE INTO transactions ... : a row that violates the UNIQUE
\* constraint is skipped without an error
InsertOrIgnore(table, row) ==
  IF ViolatesUnique(table, row) THEN table ELSE Append(table, row)

\* a catch block that undoes the run's writes: the table as it was when the
\* run began
RolledBack(table, rowsAtStart) == SubSeq(table, 1, rowsAtStart)

\* the catch block of the item loop: no statement of the run is inside a
\* transaction, each insertStmt.run has committed by itself, and the catch
\* block undoes nothing
AfterCatch(table, rowsAtStart) == table

\* a result.changes that is 1 whether or not the row was stored
changesAlways(before, after) == 1

\* result.changes of better-sqlite3's run(): rows the statement stored
changes(before, after) == IF after = before THEN 0 ELSE 1

-----------------------------------------------------------------------------
(* Configuration: lib.js loadEnv; the module start of ingest.js, server.js *)

EnvNames ==
  {"PLAID_CLIENT_ID", "PLAID_SECRET", "PLAID_ENV", "ENCRYPTION_KEY", "API_KEY"}

\* const required = ['PLAID_CLIENT_ID', 'PLAID_SECRET', 'PLAID_ENV']
required == <<"PLAID_CLIENT_ID", "PLAID_SECRET", "PLAID_ENV">>

\* a value of 64 hex characters, and one that is too short
Key64 == [i \in 1..64 |-> "a"]

Key8 == [i \in 1..8 |-> "a"]

\* a second key of 64 hex characters, and 64 characters that are not hex
Key64b == [i \in 1..64 |-> "b"]

Key64z == [i \in 1..64 |-> "z"]

\* the values of ENCRYPTION_KEY drawn
CryptoKeys == {Null, <<>>, Key8, Key64z, Key64, Key64b}

CredValue == <<"i","d">>

\* !process.env[key]: unset, or set to the empty string
Falsy(v) == v = Null \/ v = <<>>

\* loadEnv with every required variable demanded but PLAID_ENV, for which
\* the default 'production' is taken
loadEnvDefaultingPlaidEnv(e) ==
  LET missing == SelectSeq(required, LAMBDA key : key # "PLAID_ENV" /\ Falsy(e[key]))
  IN [threw |-> Len(missing) > 0, missing |-> missing]

\* loadEnv: throws when a required variable is missing
loadEnv(e) ==
  LET missing == SelectSeq(required, LAMBDA key : Falsy(e[key]))
  IN [threw |-> Len(missing) > 0, missing |-> missing]

\* the environments a behaviour may start in: each Plaid variable set or
\* unset, PLAID_SECRET also empty, ENCRYPTION_KEY unset, short or valid,
\* API_KEY unset
EnvChoices ==
  { e \in [EnvNames -> {Null, <<>>, CredValue, Key8, Key64}] :
      /\ e["PLAID_CLIENT_ID"] \in {Null, CredValue}
      /\ e["PLAID_SECRET"] \in {Null, <<>>, CredValue}
      /\ e["PLAID_ENV"] \in {Null, CredValue}
      /\ e["ENCRYPTION_KEY"] \in {Null, Key8, Key64}
      /\ e["API_KEY"] = Null
      /\ Falsy(e["PLAID_CLIENT_ID"]) => e["ENCRYPTION_KEY"] = Null }

EnvComplete ==
  [key \in EnvNames |-> IF key = "ENCRYPTION_KEY" THEN Key64 ELSE CredValue]

\* the processes whose start is modelled: node server.js, node ingest.js
Procs == {"server.js", "ingest.js"}

ProcOf(kind) == IF kind = "cli" THEN "ingest.js" ELSE "server.js"

-----------------------------------------------------------------------------
(* Access tokens: lib.js encrypt, migrate-encrypt-tokens.js *)

\* response.data.access_token of itemPublicTokenExchange for item id
AccessToken(id) ==
  <<"a","c","c","e","s","s","-">> \o <<IF id = 1 THEN "1" ELSE "2">>

\* the characters with char codes 32..126, in order (the double quote, the
\* backslash and the backtick by name)
Printable ==
  <<
     " ", "!", "<quot>", "#", "$", "%", "&", "'", "(", ")", "*", "+", ",", "-", ".", "/",
     "0", "1", "2", "3", "4", "5", "6", "7", "8", "9", ":", ";", "<", "=", ">", "?",
     "@", "A", "B", "C", "D", "E", "F", "G", "H", "I", "J", "K", "L", "M", "N", "O",
     "P", "Q", "R", "S", "T", "U", "V", "W", "X", "Y", "Z", "[", "<backslash>", "]", "^", "_",
     "<backtick>", "a", "b", "c", "d", "e", "f", "g", "h", "i", "j", "k", "l", "m", "n", "o",
     "p", "q", "r", "s", "t", "u", "v", "w", "x", "y", "z", "{", "|", "}", "~" >>

\* the character a decoder puts for a byte sequence that is no character
Replacement == "<U+FFFD>"

\* c.charCodeAt(0)
charCode(c) == 31 + (CHOOSE k \in 1..Len(Printable) : Printable[k] = c)

\* Buffer.from(text, 'utf8'), for text of the characters above
utf8(text) == [k \in 1..Len(text) |-> charCode(text[k])]

\* buffer.toString('utf8')
fromUtf8(bytes) ==
  [k \in 1..Len(bytes) |->
     IF bytes[k] \in 32..126 THEN Printable[bytes[k] - 31] ELSE Replacement]

HexDigits == Digits \o <<"a","b","c","d","e","f">>

IsHex(c) == \E d \in 1..16 : HexDigits[d] = c

HexValue(c) == (CHOOSE d \in 1..16 : HexDigits[d] = c) - 1

\* buffer.toString('hex')
RECURSIVE toHex(_)
toHex(bytes) ==
  IF Len(bytes) = 0 THEN <<>>
  ELSE << HexDigits[(bytes[1] \div 16) + 1], HexDigits[(bytes[1] % 16) + 1] >>
       \o toHex(Tail(bytes))

\* Buffer.from(text, 'hex'): the pairs of hex digits up to the first
\* character that is none
RECURSIVE fromHex(_)
fromHex(text) ==
  IF Len(text) < 2 \/ ~IsHex(text[1]) \/ ~IsHex(text[2]) THEN <<>>
  ELSE << 16 * HexValue(text[1]) + HexValue(text[2]) >>
       \o fromHex(Tail(Tail(text)))

\* text.split(sep)
RECURSIVE split(_, _)
split(text, sep) ==
  IF \A k \in 1..Len(text) : text[k] # sep THEN << text >>
  ELSE << beforeSep(text, sep) >> \o split(afterSep(text, sep), sep)

RECURSIVE Sum(_)
Sum(bytes) == IF Len(bytes) = 0 THEN 0 ELSE bytes[1] + Sum(Tail(bytes))

\* crypto.randomBytes(16): the initialisation vectors drawn (two bytes here)
Ivs == { <<1, 35>> }

IvChoices == Ivs \cup { <<254, 7>> }

\* AES-256-GCM, as a stand-in with the same shape: a key stream that the key
\* and the iv determine, added to the plaintext byte by byte, and a tag (one
\* byte here) that the key, the iv and the ciphertext determine
KeyStream(keyBuffer, iv, k) == (keyBuffer[1] + Sum(iv) + 7 * k) % 256

Cipher(keyBuffer, iv, bytes) ==
  [k \in 1..Len(bytes) |-> (bytes[k] + KeyStream(keyBuffer, iv, k)) % 256]

Decipher(keyBuffer, iv, bytes) ==
  [k \in 1..Len(bytes) |->
     (bytes[k] + 256 - KeyStream(keyBuffer, iv, k)) % 256]

AuthTag(keyBuffer, iv, bytes) ==
  << (3 * keyBuffer[1] + Sum(iv) + Sum(bytes) + Len(bytes)) % 256 >>

\* the key check of encrypt and decrypt, and the one of createCipheriv on
\* the key's bytes
KeyRejected(key) ==
  Falsy(key) \/ Len(key) # 64 \/ Len(fromHex(key)) # 32

\* an encrypt that joins the iv and the tag without a separator
encryptTwoParts(text, key, iv) ==
  IF KeyRejected(key) \/ text = Null
  THEN [threw |-> TRUE, value |-> <<>>]
  ELSE LET keyBuffer == fromHex(key)
           encrypted == Cipher(keyBuffer, iv, utf8(text))
       IN [threw |-> FALSE,
           value |-> toHex(iv) \o toHex(AuthTag(keyBuffer, iv, encrypted))
                     \o <<":">> \o toHex(encrypted)]

\* encrypt: `${iv}:${authTag}:${encrypted}`, all three in hex; throws on a
\* missing or malformed key
encrypt(text, key, iv) ==
  IF KeyRejected(key) \/ text = Null
  THEN [threw |-> TRUE, value |-> <<>>]
  ELSE LET keyBuffer == fromHex(key)
           encrypted == Cipher(keyBuffer, iv, utf8(text))
       IN [threw |-> FALSE,
           value |-> toHex(iv) \o <<":">>
                     \o toHex(AuthTag(keyBuffer, iv, encrypted))
                     \o <<":">> \o toHex(encrypted)]

\* a decrypt that returns the empty string where decrypt throws
decryptLenient(ciphertext, key) ==
  IF KeyRejected(key) THEN [threw |-> FALSE, value |-> <<>>]
  ELSE LET parts == split(ciphertext, ":") IN
       IF Len(parts) # 3 THEN [threw |-> FALSE, value |-> <<>>]
       ELSE LET keyBuffer == fromHex(key)
                iv == fromHex(parts[1])
                authTag == fromHex(parts[2])
                encrypted == fromHex(parts[3])
            IN IF Len(iv) = 0 \/ authTag # AuthTag(keyBuffer, iv, encrypted)
               THEN [threw |-> FALSE, value |-> <<>>]
               ELSE [threw |-> FALSE,
                     value |-> fromUtf8(Decipher(keyBuffer, iv, encrypted))]

\* decrypt: throws on a missing or malformed key, on an input that has not
\* three parts, on an empty iv (createDecipheriv) and on a tag that does not
\* authenticate the ciphertext (decipher.final)
decrypt(ciphertext, key) ==
  IF KeyRejected(key) THEN [threw |-> TRUE, value |-> <<>>]
  ELSE LET parts == split(ciphertext, ":") IN
       IF Len(parts) # 3 THEN [threw |-> TRUE, value |-> <<>>]
       ELSE LET keyBuffer == fromHex(key)
                iv == fromHex(parts[1])
                authTag == fromHex(parts[2])
                encrypted == fromHex(parts[3])
            IN IF Len(iv) = 0 \/ authTag # AuthTag(keyBuffer, iv, encrypted)
               THEN [threw |-> TRUE, value |-> <<>>]
               ELSE [threw |-> FALSE,
                     value |-> fromUtf8(Decipher(keyBuffer, iv, encrypted))]

\* text.split(':').length
SplitLength(text) ==
  1 + Cardinality({ i \in 1..Len(text) : text[i] = ":" })

\* the credential passed to the provider for a plaid_items row:
\* access_token: item.access_token
Credential(item) == [column |-> "access_token", value |-> item.access_token]

\* migrate-encrypt-tokens.js: the token is already in the three-part format
LooksEncrypted(text) ==
  (\E i \in 1..Len(text) : text[i] = ":") /\ SplitLength(text) = 3

\* SELECT ... WHERE access_token_enc IS NULL AND access_token IS NOT NULL:
\* the positions of the selected rows
Selected(table) ==
  SelectSeq([j \in 1..Len(table) |-> j],
            LAMBDA j : table[j].access_token_enc = Null
                       /\ table[j].access_token # Null)

\* the object migrateTokens returns, from the table before and after; the
\* rows skipped count neither as encrypted nor as errors; a run that selects
\* no row returns undefined, written here as the report of zeros
MigrateReport(before, after) ==
  LET sel == Selected(before)
      done == SelectSeq(sel, LAMBDA j : after[j].access_token_enc # Null)
      skipped == SelectSeq(sel, LAMBDA j : LooksEncrypted(before[j].access_token))
  IN IF Len(sel) = 0 THEN [total |-> 0, encrypted |-> 0, errors |-> 0]
     ELSE [total |-> Len(sel), encrypted |-> Len(done),
           errors |-> Len(sel) - Len(done) - Len(skipped)]

\* the access tokens the provider issues
Tokens == { AccessToken(id) : id \in ItemIds }

\* encrypt, for every token, key and iv of the model
EncryptOf ==
  [text \in Tokens, key \in CryptoKeys, iv \in IvChoices |->
     encrypt(text, key, iv)]

\* a migration that selects every row, whether access_token_enc is set or not
MigrateRowEvery(row, key, iv) ==
  IF row.access_token = Null THEN row
  ELSE IF LooksEncrypted(row.access_token) THEN row
  ELSE IF EncryptOf[row.access_token, key, iv].threw THEN row
  ELSE [row EXCEPT !.access_token_enc = EncryptOf[row.access_token, key, iv].value]

\* one iteration of the loop of migrateTokens over the selected rows (those
\* WHERE access_token_enc IS NULL AND access_token IS NOT NULL): skip, or
\* encrypt and UPDATE plaid_items SET access_token_enc; a throw is caught
MigrateRow(row, key, iv) ==
  IF ~(row.access_token_enc = Null /\ row.access_token # Null) THEN row
  ELSE IF LooksEncrypted(row.access_token) THEN row
  ELSE IF EncryptOf[row.access_token, key, iv].threw THEN row
  ELSE [row EXCEPT !.access_token_enc = EncryptOf[row.access_token, key, iv].value]

-----------------------------------------------------------------------------
(* Accounts: the account fetch script (fetchAccounts), table accounts *)

\* account fetches begun in one behaviour
MaxAccountRuns == 2

\* response.data.accounts of accountsGet for item id: the one account of
\* the item, before and after the institution renamed it
AcctChecking(id) ==
  [account_id |-> <<"acc", id>>, name |-> "Checking", type |-> "depository",
   subtype |-> "checking", mask |-> "0000"]

AcctCheckingRenamed(id) ==
  [account_id |-> <<"acc", id>>, name |-> "Everyday Checking",
   type |-> "depository", subtype |-> "checking", mask |-> "1111"]

AccountResponses(id) == { <<AcctChecking(id)>>, <<AcctCheckingRenamed(id)>> }

\* id INTEGER PRIMARY KEY AUTOINCREMENT: the rowid given to a new row
NextRowId(table) == IF Len(table) = 0 THEN 1 ELSE table[Len(table)].id + 1

\* the accounts row bound to the INSERT statement; id is not among the
\* columns of the statement
AccountRow(table, account) ==
  [id |-> NextRowId(table), user_id |-> "user-1", source |-> "plaid",
   account_id |-> account.account_id, name |-> account.name,
   type |-> account.type, subtype |-> account.subtype, mask |-> account.mask]

\* the constraints of CREATE TABLE accounts a new row can violate: the
\* primary key id only; account_id is NOT NULL and not UNIQUE
ViolatesAccountsKey(old, row) == old.id = row.id

\* INSERT OR REPLACE INTO accounts: rows that violate a uniqueness
\* constraint with the new row are deleted, then the new row is stored
InsertOrReplaceAccount(table, account) ==
  LET row == AccountRow(table, account) IN
  SelectSeq(table, LAMBDA old : ~ViolatesAccountsKey(old, row)) \o <<row>>

\* for (const account of accounts) insertStmt.run(...)
RECURSIVE InsertAccounts(_, _)
InsertAccounts(table, list) ==
  IF Len(list) = 0 THEN table
  ELSE InsertAccounts(InsertOrReplaceAccount(table, list[1]), Tail(list))

NoCred == [none |-> TRUE]

\* the provider call made for a plaid_items row: the item, whether its
\* access_token_enc was populated, and the credential passed
ProviderCall(item) ==
  [item_id |-> item.item_id,
   enc |-> item.access_token_enc # Null,
   column |-> Credential(item).column,
   access_token |-> Credential(item).value]

\* the script's locals: items, the loop position, the credential of its last
\* provider call; and how many times it has been run
IdleAcct == [pc |-> "idle", items |-> <<>>, i |-> 0, cred |-> NoCred, runs |-> 0]

\* the end of one iteration of for (const item of items)
NextAcctItem(a) ==
  IF a.i < Len(a.items) THEN [a EXCEPT !.i = @ + 1]
  ELSE [a EXCEPT !.pc = "idle", !.items = <<>>, !.i = 0]

-----------------------------------------------------------------------------
(* Linking: server.js POST /exchange-token *)

\* request.body of POST /exchange-token
PublicToken == <<"p","u","b","l","i","c","-","1">>

Bodies ==
  { [public_token |-> Null], [public_token |-> <<>>],
    [public_token |-> PublicToken] }

\* a handler that passes every body on to the provider
AnyPublicToken(body) == TRUE

\* if (!public_token) return reply.code(400)
HasPublicToken(body) == ~Falsy(body.public_token)

\* no request yet
NoLink ==
  [code |-> 0, exchanged |-> FALSE, rowsBefore |-> 0,
   body |-> [public_token |-> Null]]

-----------------------------------------------------------------------------
(* Time and the lookback window: ingest.js lines 7-10 and 53-54, server.js
   lines 141-142 *)

\* the clock's units to the day (the code: 24 * 60 * 60 * 1000 ms)
UnitsPerDay == 2

\* clock ticks in one behaviour
MaxClock == 3

\* the default of --days, and the window of ingestForAllItems
DefaultLookbackDays == 30

\* a number, or NaN
NaN == [nan |-> TRUE, n |-> 0]

Num(n) == [nan |-> FALSE, n |-> n]

RECURSIVE digitsPrefix(_)
digitsPrefix(s) ==
  IF Len(s) = 0 \/ ~IsDigit(s[1]) THEN <<>>
  ELSE <<s[1]>> \o digitsPrefix(Tail(s))

RECURSIVE decimal(_)
decimal(ds) ==
  IF Len(ds) = 0 THEN 0
  ELSE 10 * decimal(SubSeq(ds, 1, Len(ds) - 1)) + DigitValue(ds[Len(ds)])

\* parseInt(s) in radix 10: an optional sign, then the longest run of digits;
\* NaN when there is no digit
parseInt(s) ==
  LET signed == Len(s) > 0 /\ s[1] \in {"-", "+"}
      ds == digitsPrefix(IF signed THEN Tail(s) ELSE s)
  IN IF Len(ds) = 0 THEN NaN
     ELSE IF signed /\ s[1] = "-" THEN Num(0 - decimal(ds))
     ELSE Num(decimal(ds))

\* s.split(sep)[1] for an s that contains sep
secondPart(s, sep) == beforeSep(afterSep(s, sep), sep)

DaysFlag == <<"-","-","d","a","y","s","=">>

\* args.find(arg => arg.startsWith('--days=')), Null for undefined
RECURSIVE daysArg(_)
daysArg(args) ==
  IF Len(args) = 0 THEN Null
  ELSE IF startsWith(args[1], DaysFlag) THEN args[1]
  ELSE daysArg(Tail(args))

\* const lookbackDays = daysArg ? parseInt(daysArg.split('=')[1]) : 30
lookbackDays(args) ==
  IF daysArg(args) # Null THEN parseInt(secondPart(daysArg(args), "="))
  ELSE Num(DefaultLookbackDays)

\* the command lines drawn: none, --days=7, --days=1, --no-log --days=12,
\* --days=0, --days=-2, --days=abc, --days=
ArgvChoices ==
  { <<>>,
    << DaysFlag \o <<"7">> >>,
    << DaysFlag \o <<"1">> >>,
    << <<"-","-","n","o","-","l","o","g">>, DaysFlag \o <<"1","2">> >>,
    << DaysFlag \o <<"0">> >>,
    << DaysFlag \o <<"-","2">> >>,
    << DaysFlag \o <<"a","b","c">> >>,
    << DaysFlag >> }

\* new Date(t).toISOString().split('T')[0], as the number of the UTC day
toISODate(t) == t \div UnitsPerDay

\* the range computed from the clock at each provider call
RangeNow(rec, now) ==
  [start_date |-> toISODate(now - rec.lookback.n * UnitsPerDay),
   end_date |-> toISODate(now)]

\* start_date: startDate, end_date: endDate; the locals of the run
RangeOfRun(rec, now) ==
  [start_date |-> rec.startDate, end_date |-> rec.endDate]

-----------------------------------------------------------------------------
(* HTTP requests: server.js routes and the preHandler hook *)

ManualPrefix == <<"/","m","a","n","u","a","l","/">>

UrlHealth == <<"/","h","e","a","l","t","h">>

UrlLinkToken == <<"/","l","i","n","k","-","t","o","k","e","n">>

UrlExchangeToken ==
  <<"/","e","x","c","h","a","n","g","e","-","t","o","k","e","n">>

UrlIngest == <<"/","i","n","g","e","s","t">>

UrlManualAccounts == ManualPrefix \o <<"a","c","c","o","u","n","t","s">>

UrlManualTransactions ==
  ManualPrefix \o <<"t","r","a","n","s","a","c","t","i","o","n","s">>

UrlManualIngest == ManualPrefix \o <<"i","n","g","e","s","t">>

Urls ==
  { UrlHealth, UrlLinkToken, UrlExchangeToken, UrlIngest, UrlManualAccounts,
    UrlManualTransactions, UrlManualIngest }

\* values of process.env.API_KEY and of the x-api-key header
ApiKey == <<"k","e","y">>

WrongKey == <<"w","r","o","n","g">>

\* request.headers['x-api-key']: absent, empty, right or wrong
HeaderKeys == {Null, <<>>, ApiKey, WrongKey}

Requests == [url : Urls, apiKey : HeaderKeys]

\* a hook that lets every request pass when no API_KEY is configured
KeyOkUnlessUnset(apiKey, e) ==
  Falsy(e["API_KEY"]) \/ ~(Falsy(apiKey) \/ apiKey # e["API_KEY"])

\* a hook that demands the key for every URL
GatedEverywhere(url) == TRUE

\* if (request.url.startsWith('/manual/'))
Gated(url) == startsWith(url, ManualPrefix)

\* the negation of (!apiKey || apiKey !== process.env.API_KEY)
KeyOk(apiKey, e) == ~(Falsy(apiKey) \/ apiKey # e["API_KEY"])

\* the preHandler hook does not answer 401
Admits(req, e) == Gated(req.url) => KeyOk(req.apiKey, e)

\* no request (a run of node ingest.js)
NoReq == [url |-> <<>>, apiKey |-> Null]

\* the request behind a run of kind "http" when none is given: POST /ingest
\* without a key
ReqOf(kind) == IF kind = "cli" THEN NoReq ELSE [url |-> UrlIngest, apiKey |-> Null]

\* no request answered yet
NoHttp == [req |-> NoReq, code |-> 0, handler |-> FALSE]

-----------------------------------------------------------------------------
(* The daily workflow: auto-daily.js runScript, runAutoDaily *)

\* the scripts of steps 1 to 3
Scripts == << "./ingest.js", "./export-csv.js", "./audit-log.js" >>

\* the exit codes a child may close with
ExitCodes == {0, 1, 2}

\* the workflow before it is started: its position, the index of the step
\* it awaits, the children spawned so far, the results array, what it has
\* logged, and the exit code of its process (-1: has not exited)
IdleDaily ==
  [pc |-> "idle", step |-> 0, children |-> <<>>, results |-> <<>>,
   log |-> <<>>, exit |-> 0 - 1]

\* a close handler that resolves whatever the code
closeRejectsNever(code) == FALSE

\* child.on('close'): if (code !== 0) reject(...) else resolve(...)
closeRejects(code) == code # 0

\* completed_steps: results.map(r => r.script)
completedSteps(d) == [k \in 1..Len(d.results) |-> d.results[k].script]

\* runScript(scriptPath): spawn('node', [scriptPath]); the promise is awaited
runScript(d, scriptPath) ==
  [d EXCEPT !.pc = "await", !.step = @ + 1,
            !.children = Append(@, [script |-> scriptPath,
                                    state |-> "running", code |-> 0 - 1])]

\* logCcc(resultObj) begins with loadEnv(), which throws before anything is
\* written when a required variable is missing
logCccThrows(e) == loadEnv(e).threw

\* the catch block of runAutoDaily, and the one of its caller: the error
\* record is logged and the error thrown again, or logCcc throws in the catch
\* block; either way process.exit(1)
DailyFailed(d, message, e) ==
  [d EXCEPT !.pc = "done",
            !.log = IF logCccThrows(e) THEN @
                    ELSE Append(@, [status |-> "auto-daily-error",
                                    error |-> message,
                                    completed_steps |-> completedSteps(d)]),
            !.exit = 1]

\* after an await of runScript: results.push, then the next step, or after
\* the third the summary, logCcc(summary), process.exit(0); logCcc(summary)
\* is inside the try block
DailyResolved(d, result, e) ==
  LET d1 == [d EXCEPT !.results = Append(@, result)] IN
  IF d.step < Len(Scripts) THEN runScript(d1, Scripts[d.step + 1])
  ELSE IF logCccThrows(e) THEN DailyFailed(d1, <<"logCcc">>, e)
  ELSE [d1 EXCEPT !.pc = "done",
                  !.log = Append(@, [status |-> "auto-daily-complete",
                                     steps |-> d1.results]),
                  !.exit = 0]

\* the child's 'close' event with its exit code
onClose(d, code, e) ==
  LET d1 == [d EXCEPT !.children[d.step].state = "closed",
                      !.children[d.step].code = code]
  IN IF closeRejects(code)
     THEN DailyFailed(d1, <<d.children[d.step].script, "exited">>, e)
     ELSE DailyResolved(d1, [script |-> d.children[d.step].script,
                             code |-> code], e)

\* the child's 'error' event: the process could not be spawned
onError(d, e) ==
  DailyFailed([d EXCEPT !.children[d.step].state = "failed"],
              <<d.children[d.step].script, "spawn">>, e)

\* the exit code of node ingest.js for a run that has ended
ExitCodeOf(rec) == IF rec.outcome = "exit 0" THEN 0 ELSE 1

-----------------------------------------------------------------------------
(* The inputs of the encrypt/decrypt harness *)

\* texts given to encrypt and to decrypt: tokens, the empty string, and
\* texts of one, two, three and four parts
CryptoTexts ==
  { <<"a","c","c","e","s","s","-","1">>,
    <<"a","c","c","e","s","s","-","2">>,
    <<>>,
    <<"T","o","k","~"," ","9">>,
    <<"0","1",":","a","b">>,
    <<"0","1",":","a","b",":","c","d">>,
    <<"0","1",":","a","b",":","c","d",":","e","f">> }

-----------------------------------------------------------------------------
(* Ingest runs: ingest.js ingest (kind "cli"), server.js ingestForAllItems
   behind POST /ingest (kind "http") *)

Runs == 1..MaxRuns

Kinds == {"cli", "http"}

NoReport == [none |-> TRUE]

NoRun == [none |-> TRUE]

\* the locals of a run: items, the loop positions i and k, the current
\* response txns, the last result.changes, the counters, the errors array;
\* and what the run has logged, its report, how it ended, and its last
\* provider call; the request it serves, lookbackDays, the time at which
\* the range was computed, startDate, endDate
IdleRun ==
  [pc |-> "idle", kind |-> "none", items |-> <<>>, i |-> 0, txns |-> <<>>,
   k |-> 0, changes |-> 0, totalFetched |-> 0, totalInserted |-> 0,
   totalCategorized |-> 0, errors |-> <<>>, log |-> <<>>,
   report |-> NoReport, outcome |-> "none", cred |-> NoCred,
   req |-> NoReq, lookback |-> Num(0), startedAt |-> 0, startDate |-> 0,
   endDate |-> 0]

\* history of a run: per item handled so far its id, the range asked for,
\* whether the fetch succeeded, how many transactions it returned, whether one of them was not
\* yet stored, whether handling them threw; the table's size at the run's start and end; whether
\* no other run was in progress meanwhile; the run completed last before
\* this one began
IdleHist ==
  [out |-> <<>>, rowsAtStart |-> 0, rowsAtEnd |-> 0, alone |-> TRUE,
   prev |-> NoRun, epoch |-> 0, same |-> FALSE]

Active(rec) == rec.pc \in {"fetch", "insert"}

\* the row bound to the INSERT statement for txn of item
Row(item, txn, cat) ==
  [item_id |-> item.item_id,
   transaction_id |-> txn.transaction_id,
   name |-> txn.name,
   merchant |-> OrElse(txn.merchant_name, Null),
   raw_category |-> IF txn.category # Null THEN join(txn.category) ELSE Null,
   ai_category |-> cat.category,
   ai_confidence |-> cat.confidence]

\* categorize(txn.name, txn.merchant_name, txn.category ? join(',') : '')
categorizeTxn(txn) ==
  categorize(txn.name, txn.merchant_name,
             IF txn.category # Null THEN join(txn.category) ELSE <<>>)

\* the categorizer's result for each provider transaction
CatOf == [t \in ProviderTxns |-> categorizeTxn(t)]

\* counts every attempted insert
CountAttempt(rec, ch) ==
  [rec EXCEPT !.totalInserted = @ + 1, !.totalCategorized = @ + 1]

\* counts a classification for every transaction run through categorize
CountClassified(rec, ch) ==
  IF ch > 0
  THEN [rec EXCEPT !.totalInserted = @ + 1, !.totalCategorized = @ + 1]
  ELSE [rec EXCEPT !.totalCategorized = @ + 1]

\* if (result.changes > 0) { totalInserted++; totalCategorized++; }
CountNew(rec, ch) ==
  IF ch > 0
  THEN [rec EXCEPT !.totalInserted = @ + 1, !.totalCategorized = @ + 1]
  ELSE rec

\* a catch block that drops the error
DropError(rec, message) == rec

\* the catch block of the item loop: errors.push (ingest.js), logCcc (server.js)
RecordError(rec, message) ==
  IF rec.kind = "cli"
  THEN [rec EXCEPT !.errors =
          Append(@, [item_id |-> rec.items[rec.i].item_id, error |-> message])]
  ELSE [rec EXCEPT !.log =
          Append(@, [status |-> "error", action |-> "ingest-item",
                     item_id |-> rec.items[rec.i].item_id, error |-> message])]

\* the summary object of ingest.js; errors is undefined when none was pushed
Summary(rec) ==
  LET base == [status |-> "ingest-complete",
               total_items |-> Len(rec.items),
               total_transactions_fetched |-> rec.totalFetched,
               inserted |-> rec.totalInserted,
               categorized |-> rec.totalCategorized]
  IN IF Len(rec.errors) > 0
     THEN [status |-> base.status, total_items |-> base.total_items,
           total_transactions_fetched |-> base.total_transactions_fetched,
           inserted |-> base.inserted, categorized |-> base.categorized,
           errors |-> rec.errors]
     ELSE base

\* the object ingestForAllItems returns
Result(rec) ==
  [total_items |-> Len(rec.items),
   total_fetched |-> rec.totalFetched,
   total_inserted |-> rec.totalInserted,
   total_categorized |-> rec.totalCategorized]

\* POST /manual/ingest: return { status: 'success', ...result }
ManualResult(rec) ==
  [status |-> "success",
   total_items |-> Len(rec.items),
   total_fetched |-> rec.totalFetched,
   total_inserted |-> rec.totalInserted,
   total_categorized |-> rec.totalCategorized]

\* the end of a run behind POST /ingest or POST /manual/ingest: the log
\* entry, the returned object, 200
FinishHttp(rec) ==
  IF rec.req.url = UrlManualIngest
  THEN [rec EXCEPT !.pc = "done", !.report = ManualResult(rec),
                   !.log = Append(@, [status |-> "manual-ingest-complete",
                                      result |-> Result(rec)]),
                   !.outcome = "200"]
  ELSE [rec EXCEPT !.pc = "done", !.report = Result(rec),
                   !.log = Append(@, [status |-> "ingest-complete",
                                      result |-> Result(rec)]),
                   !.outcome = "200"]

\* a zero-item CLI run that falls through to the summary
EmptyCliSummarised(rec) ==
  [rec EXCEPT !.pc = "done", !.report = Summary(rec),
              !.log = Append(@, Summary(rec)), !.outcome = "exit 0"]

\* ingest.js: if (items.length === 0) { logCcc(ingest-skipped); return; }
EmptyCli(rec) ==
  [rec EXCEPT !.pc = "done", !.report = NoReport,
              !.log = Append(@, [status |-> "ingest-skipped",
                                 reason |-> "no-items"]),
              !.outcome = "exit 0"]

\* an end of run that turns a recorded per-item error into a failure
FinishFailingOnErrors(rec) ==
  IF Len(rec.errors) > 0
     \/ \E j \in 1..Len(rec.log) : rec.log[j].status = "error"
  THEN [rec EXCEPT !.pc = "fatal",
                   !.outcome = IF rec.kind = "cli" THEN "exit 1" ELSE "500"]
  ELSE IF rec.kind = "cli"
  THEN [rec EXCEPT !.pc = "done", !.report = Summary(rec),
                   !.log = Append(@, Summary(rec)), !.outcome = "exit 0"]
  ELSE FinishHttp(rec)

\* after the item loop: the summary and exit 0 (ingest.js), the returned
\* result, its log entry and the 200 response (server.js POST /ingest,
\* POST /manual/ingest)
Finish(rec) ==
  IF rec.kind = "cli"
  THEN [rec EXCEPT !.pc = "done", !.report = Summary(rec),
                   !.log = Append(@, Summary(rec)), !.outcome = "exit 0"]
  ELSE FinishHttp(rec)

\* an item loop that ends after the item at hand
LastItem(rec) == Finish([rec EXCEPT !.txns = <<>>, !.k = 0, !.changes = 0])

\* the end of one iteration of for (const item of items)
NextItem(rec) ==
  LET rec0 == [rec EXCEPT !.txns = <<>>, !.k = 0, !.changes = 0] IN
  IF rec.i < Len(rec.items)
  THEN [rec0 EXCEPT !.pc = "fetch", !.i = @ + 1]
  ELSE Finish(rec0)

\* history kept when a run's step ends it
Closed(h, rec, table, e) ==
  IF rec.pc = "done"
  THEN [h EXCEPT !.rowsAtEnd = Len(table),
                 !.same = h.prev # NoRun /\ h.prev.items = rec.items
                          /\ h.prev.epoch = e]
  ELSE h

Completed(h, rec, last) ==
  IF rec.pc = "done"
  THEN [items |-> rec.items, epoch |-> h.epoch,
        faulted |-> \E i \in 1..Len(h.out) : h.out[i].ok /\ h.out[i].threw]
  ELSE last

-----------------------------------------------------------------------------
(* Initial state: server.js and ingest.js have started with a complete
   configuration; an empty database, no run in progress *)

NoCall == [none |-> TRUE]

\* the harness has called neither encrypt nor decrypt
NoCrypto == [op |-> "none", enc |-> NoCall, dec |-> NoCall, item |-> 0]

Init ==
  /\ plaid_items = <<>>
  /\ transactions = <<>>
  /\ run = [r \in Runs |-> IdleRun]
  /\ hist = [r \in Runs |-> IdleHist]
  /\ lastDone = NoRun
  /\ provider = [id \in ItemIds |-> Unknown]
  /\ epoch = 0
  /\ started = 0
  /\ catIn = NoCall
  /\ catOut = NoCall
  /\ catPrev = NoCall
  /\ env = EnvComplete
  /\ proc = [p \in Procs |-> "up"]
  /\ accounts = <<>>
  /\ acct = IdleAcct
  /\ link = NoLink
  /\ clock = 0
  /\ argv = <<>>
  /\ http = NoHttp
  /\ daily = IdleDaily
  /\ cryptoIn = NoCall
  /\ cryptoOut = NoCrypto
  /\ mig = NoCall

-----------------------------------------------------------------------------
(* Actions *)

\* POST /exchange-token, the exchange succeeding: the provider issues a new
\* item id and the row is stored; the response is 200 {success, item_id}
ExchangeToken(id, body) ==
  /\ proc["server.js"] = "up"
  /\ HasPublicToken(body)
  /\ Len(plaid_items) < MaxItems
  /\ \A j \in 1..Len(plaid_items) : plaid_items[j].item_id # id
  /\ plaid_items' = Append(plaid_items,
                           [item_id |-> id, access_token |-> AccessToken(id),
                            created_at |-> clock,
                            access_token_enc |-> Null])
  /\ link' = [code |-> 200, exchanged |-> TRUE,
              rowsBefore |-> Len(plaid_items), body |-> body]
  /\ UNCHANGED <<transactions, run, hist, lastDone, provider, epoch, started,
                 catIn, catOut, catPrev, adminVars>>

\* POST /exchange-token with no public_token in the body: 400, before the
\* provider is called
ExchangeTokenMissing(body) ==
  /\ proc["server.js"] = "up"
  /\ ~HasPublicToken(body)
  /\ link' = [code |-> 400, exchanged |-> FALSE,
              rowsBefore |-> Len(plaid_items), body |-> body]
  /\ UNCHANGED <<plaid_items, transactions, run, hist, lastDone, provider,
                 epoch, started, catIn, catOut, catPrev, adminVars>>

\* POST /exchange-token, itemPublicTokenExchange rejecting: the catch block
\* logs the error and answers 500
ExchangeTokenFail(body) ==
  /\ proc["server.js"] = "up"
  /\ HasPublicToken(body)
  /\ link' = [code |-> 500, exchanged |-> TRUE,
              rowsBefore |-> Len(plaid_items), body |-> body]
  /\ UNCHANGED <<plaid_items, transactions, run, hist, lastDone, provider,
                 epoch, started, catIn, catOut, catPrev, adminVars>>

\* The provider's data for an item changes (new or edited transactions, a
\* token that stops or starts working)
ProviderChange(id) ==
  /\ epoch < MaxChanges
  /\ \A r \in Runs : ~Active(run[r])
  /\ provider[id] # Unknown
  /\ provider' = [provider EXCEPT ![id] = Unknown]
  /\ epoch' = epoch + 1
  /\ UNCHANGED <<plaid_items, transactions, run, hist, lastDone, started,
                 catIn, catOut, catPrev, link, adminVars>>

\* A run begins, for request req when it is behind a route: the preHandler
\* hook lets the request pass; SELECT * FROM plaid_items, and with no item
\* the run ends in the same step (no await is reached); else endDate and
\* startDate are computed (the two reads of the clock give the same time),
\* which throws when lookbackDays is NaN
StartIngestAt(r, kind, req) ==
  /\ proc[ProcOf(kind)] = "up"
  /\ ~Active(run[r])
  /\ started < MaxStarts
  /\ Admits(req, env)
  /\ LET days == IF kind = "cli" THEN lookbackDays(argv)
                 ELSE Num(DefaultLookbackDays)
         rec0 == [IdleRun EXCEPT !.kind = kind, !.items = plaid_items,
                                 !.req = req, !.lookback = days]
         rec1 == IF Len(plaid_items) = 0
                 THEN (IF kind = "cli" THEN EmptyCli(rec0) ELSE Finish(rec0))
                 ELSE IF days.nan
                 THEN [rec0 EXCEPT !.pc = "fatal",
                         !.log = <<[status |-> "error", action |-> "ingest"]>>,
                         !.outcome = "exit 1"]
                 ELSE [rec0 EXCEPT !.pc = "fetch", !.i = 1,
                         !.startedAt = clock,
                         !.endDate = toISODate(clock),
                         !.startDate =
                            toISODate(clock - days.n * UnitsPerDay)]
         h0 == [IdleHist EXCEPT
                  !.rowsAtStart = Len(transactions),
                  !.alone = \A q \in Runs \ {r} : ~Active(run[q]),
                  !.prev = lastDone,
                  !.epoch = epoch]
     IN /\ run' = [run EXCEPT ![r] = rec1]
        /\ hist' = [q \in Runs |->
                      IF q = r THEN Closed(h0, rec1, transactions, epoch)
                      ELSE IF Active(run[q]) THEN [hist[q] EXCEPT !.alone = FALSE]
                      ELSE hist[q]]
        /\ lastDone' = Completed(h0, rec1, lastDone)
  /\ started' = started + 1
  /\ UNCHANGED <<plaid_items, transactions, provider, epoch, catIn, catOut, catPrev, link, adminVars>>

\* node ingest.js, or POST /ingest without a key
StartIngest(r, kind) == StartIngestAt(r, kind, ReqOf(kind))

\* A run begins and the store cannot be read: the exception leaves ingest()
\* (ingest.js: catch, exit 1) or ingestForAllItems (server.js: catch, 500)
StartFatal(r, kind) ==
  /\ proc[ProcOf(kind)] = "up"
  /\ ~Active(run[r])
  /\ started < MaxStarts
  /\ run' = [run EXCEPT ![r] =
       [IdleRun EXCEPT !.pc = "fatal", !.kind = kind,
          !.log = <<[status |-> "error", action |-> "ingest"]>>,
          !.outcome = IF kind = "cli" THEN "exit 1" ELSE "500"]]
  /\ hist' = [hist EXCEPT ![r] = IdleHist]
  /\ started' = started + 1
  /\ UNCHANGED <<plaid_items, transactions, lastDone, provider, epoch,
                 catIn, catOut, catPrev, link, adminVars>>

\* await plaidClient.transactionsGet(...) resolves with resp
FetchOk(r, resp) ==
  /\ run[r].pc = "fetch"
  /\ LET id == run[r].items[run[r].i].item_id
         rec0 == [run[r] EXCEPT !.txns = resp,
                                !.totalFetched = @ + Len(resp),
                                !.cred = ProviderCall(run[r].items[run[r].i])]
         rec1 == IF Len(resp) = 0 THEN NextItem(rec0)
                 ELSE [rec0 EXCEPT !.pc = "insert", !.k = 1]
         new == \E j \in 1..Len(resp) :
                  \A m \in 1..Len(transactions) :
                    transactions[m].transaction_id # resp[j].transaction_id
         h1 == [hist[r] EXCEPT !.out =
                  Append(@, [item_id |-> id, ok |-> TRUE,
                             returned |-> Len(resp), new |-> new,
                             threw |-> FALSE,
                             range |-> RangeOfRun(run[r], clock)])]
     IN /\ provider[id] \in {Unknown, Answers(resp)}
        /\ provider' = [provider EXCEPT ![id] = Answers(resp)]
        /\ run' = [run EXCEPT ![r] = rec1]
        /\ hist' = [hist EXCEPT ![r] = Closed(h1, rec1, transactions, epoch)]
        /\ lastDone' = Completed(h1, rec1, lastDone)
  /\ UNCHANGED <<plaid_items, transactions, epoch, started, catIn, catOut, catPrev, link, adminVars>>

\* await plaidClient.transactionsGet(...) rejects: the catch block
FetchFail(r) ==
  /\ run[r].pc = "fetch"
  /\ LET id == run[r].items[run[r].i].item_id
         rec0 == [run[r] EXCEPT !.cred = ProviderCall(run[r].items[run[r].i])]
         rec1 == NextItem(RecordError(rec0, "fetch failed"))
         h1 == [hist[r] EXCEPT !.out =
                  Append(@, [item_id |-> id, ok |-> FALSE, returned |-> 0,
                             new |-> FALSE, threw |-> TRUE,
                             range |-> RangeOfRun(run[r], clock)])]
     IN /\ provider[id] \in {Unknown, Rejects}
        /\ provider' = [provider EXCEPT ![id] = Rejects]
        /\ run' = [run EXCEPT ![r] = rec1]
        /\ hist' = [hist EXCEPT ![r] = Closed(h1, rec1, transactions, epoch)]
        /\ lastDone' = Completed(h1, rec1, lastDone)
        /\ transactions' = AfterCatch(transactions, hist[r].rowsAtStart)
  /\ UNCHANGED <<plaid_items, epoch, started, catIn, catOut, catPrev, link,
                 adminVars>>

\* one iteration of for (const txn of transactions): categorize, insert, count
InsertTxn(r) ==
  /\ run[r].pc = "insert"
  /\ LET rec == run[r]
         txn == rec.txns[rec.k]
         cat == CatOf[txn]
         table == InsertOrIgnore(transactions, Row(rec.items[rec.i], txn, cat))
         ch == changes(transactions, table)
         rec0 == CountNew([rec EXCEPT !.changes = ch], ch)
         rec1 == IF rec.k < Len(rec.txns) THEN [rec0 EXCEPT !.k = @ + 1]
                 ELSE NextItem(rec0)
     IN /\ transactions' = table
        /\ run' = [run EXCEPT ![r] = rec1]
        /\ hist' = [hist EXCEPT ![r] = Closed(hist[r], rec1, table, epoch)]
        /\ lastDone' = Completed(hist[r], rec1, lastDone)
  /\ UNCHANGED <<plaid_items, provider, epoch, started, catIn, catOut, catPrev, link, adminVars>>

\* insertStmt.run throws (database locked, I/O error): the catch block of the
\* item loop takes it, the item's remaining transactions are skipped
InsertFault(r) ==
  /\ run[r].pc = "insert"
  /\ LET rec1 == NextItem(RecordError(run[r], "storage fault"))
         h1 == [hist[r] EXCEPT !.out[run[r].i].threw = TRUE]
         table == AfterCatch(transactions, hist[r].rowsAtStart)
     IN /\ transactions' = table
        /\ run' = [run EXCEPT ![r] = rec1]
        /\ hist' = [hist EXCEPT ![r] = Closed(h1, rec1, table, epoch)]
        /\ lastDone' = Completed(h1, rec1, lastDone)
  /\ UNCHANGED <<plaid_items, provider, epoch, started,
                 catIn, catOut, catPrev, link, adminVars>>

DoExchangeToken == \E id \in ItemIds, body \in Bodies : ExchangeToken(id, body)

DoProviderChange == \E id \in ItemIds : ProviderChange(id)

DoStartIngest == \E r \in Runs, kind \in Kinds : StartIngest(r, kind)

DoStartFatal == \E r \in Runs, kind \in Kinds : StartFatal(r, kind)

DoFetchOk == \E r \in Runs, resp \in Responses : FetchOk(r, resp)

DoFetchFail == \E r \in Runs : FetchFail(r)

DoInsertTxn == \E r \in Runs : InsertTxn(r)

DoInsertFault == \E r \in Runs : InsertFault(r)

Next ==
  \/ DoExchangeToken
  \/ DoProviderChange
  \/ DoStartIngest
  \/ DoStartFatal
  \/ DoFetchOk
  \/ DoFetchFail
  \/ DoInsertTxn
  \/ DoInsertFault

Spec == Init /\ [][Next]_vars

-----------------------------------------------------------------------------
(* Process start, the encryption migration, the account fetch script *)

\* node server.js, node ingest.js: const env = loadEnv() returns and
\* const db = getDb() opens the store
Startup(p) ==
  /\ proc[p] = "off"
  /\ ~loadEnv(env).threw
  /\ proc' = [proc EXCEPT ![p] = "up"]
  /\ UNCHANGED <<plaid_items, transactions, run, hist, lastDone, provider,
                 epoch, started, catIn, catOut, catPrev, link, env, accounts,
                 acct, opsVars, mig>>

\* node server.js, node ingest.js: loadEnv() throws at the module's first
\* statement; the process ends on the uncaught exception
StartupFault(p) ==
  /\ proc[p] = "off"
  /\ loadEnv(env).threw
  /\ proc' = [proc EXCEPT ![p] = "failed"]
  /\ UNCHANGED <<plaid_items, transactions, run, hist, lastDone, provider,
                 epoch, started, catIn, catOut, catPrev, link, env, accounts,
                 acct, opsVars, mig>>

\* node migrate-encrypt-tokens.js: getDb() (which calls loadEnv), then the
\* loop over the selected rows, row j encrypted with iv[j]; no await in it;
\* what it returns: total, encrypted, errors (undefined when no row is
\* selected)
Migrate(iv) ==
  /\ ~loadEnv(env).threw
  /\ iv \in [1..Len(plaid_items) -> IvChoices]
  /\ plaid_items' =
       [j \in 1..Len(plaid_items) |->
          MigrateRow(plaid_items[j], env["ENCRYPTION_KEY"], iv[j])]
  /\ mig' = MigrateReport(plaid_items, plaid_items')
  /\ UNCHANGED <<transactions, run, hist, lastDone, provider, epoch, started,
                 catIn, catOut, catPrev, link, env, proc, accounts, acct,
                 opsVars>>

\* the account fetch script starts: loadEnv, getDb, SELECT * FROM plaid_items
StartFetchAccounts ==
  /\ acct.pc = "idle"
  /\ acct.runs < MaxAccountRuns
  /\ ~loadEnv(env).threw
  /\ acct' = IF Len(plaid_items) = 0
             THEN [acct EXCEPT !.runs = @ + 1, !.cred = NoCred]
             ELSE [acct EXCEPT !.pc = "get", !.items = plaid_items, !.i = 1,
                               !.runs = @ + 1, !.cred = NoCred]
  /\ UNCHANGED <<plaid_items, transactions, run, hist, lastDone, provider,
                 epoch, started, catIn, catOut, catPrev, link, env, proc,
                 accounts, opsVars, mig>>

\* await plaidClient.accountsGet(...) resolves with resp: every account of
\* it is stored with INSERT OR REPLACE
AccountsOk(resp) ==
  /\ acct.pc = "get"
  /\ resp \in AccountResponses(acct.items[acct.i].item_id)
  /\ accounts' = InsertAccounts(accounts, resp)
  /\ acct' = NextAcctItem([acct EXCEPT !.cred = ProviderCall(acct.items[acct.i])])
  /\ UNCHANGED <<plaid_items, transactions, run, hist, lastDone, provider,
                 epoch, started, catIn, catOut, catPrev, link, env, proc,
                 opsVars, mig>>

\* await plaidClient.accountsGet(...) rejects: the catch block prints the
\* error and the loop goes on
AccountsFail ==
  /\ acct.pc = "get"
  /\ acct' = NextAcctItem([acct EXCEPT !.cred = ProviderCall(acct.items[acct.i])])
  /\ UNCHANGED <<plaid_items, transactions, run, hist, lastDone, provider,
                 epoch, started, catIn, catOut, catPrev, link, env, proc,
                 accounts, opsVars, mig>>

\* the provider issues item ids in order
NextItemId == Len(plaid_items) + 1

-----------------------------------------------------------------------------
(* Process start and linking, from every environment, with one ingest run *)

BootInit ==
  /\ plaid_items = <<>>
  /\ transactions = <<>>
  /\ run = [r \in Runs |-> IdleRun]
  /\ hist = [r \in Runs |-> IdleHist]
  /\ lastDone = NoRun
  /\ provider = [id \in ItemIds |-> Unknown]
  /\ epoch = 0
  /\ started = 0
  /\ catIn = NoCall
  /\ catOut = NoCall
  /\ catPrev = NoCall
  /\ env \in EnvChoices
  /\ proc = [p \in Procs |-> "off"]
  /\ accounts = <<>>
  /\ acct = IdleAcct
  /\ link = NoLink
  /\ clock = 0
  /\ argv = <<>>
  /\ http = NoHttp
  /\ daily = IdleDaily
  /\ cryptoIn = NoCall
  /\ cryptoOut = NoCrypto
  /\ mig = NoCall

BootStartup == \E p \in Procs : Startup(p)

BootStartupFault == \E p \in Procs : StartupFault(p)

BootExchangeToken == \E body \in Bodies : ExchangeToken(NextItemId, body)

BootExchangeTokenMissing == \E body \in Bodies : ExchangeTokenMissing(body)

BootExchangeTokenFail == \E body \in Bodies : ExchangeTokenFail(body)

BootStartIngest == started = 0 /\ \E kind \in Kinds : StartIngest(1, kind)

BootFetchOk == \E resp \in {<<TxnShell>>} : FetchOk(1, resp)

BootFetchFail == FetchFail(1)

BootInsertTxn == InsertTxn(1)

BootNext ==
  \/ BootStartup
  \/ BootStartupFault
  \/ BootExchangeToken
  \/ BootExchangeTokenMissing
  \/ BootExchangeTokenFail
  \/ BootStartIngest
  \/ BootFetchOk
  \/ BootFetchFail
  \/ BootInsertTxn

SpecBoot == BootInit /\ [][BootNext]_vars

-----------------------------------------------------------------------------
(* The store under linking, the encryption migration, the account fetch
   script and one ingest run at a time, with a complete configuration *)

\* the responses of transactionsGet drawn here
SysResponses == { <<>>, <<TxnShell, TxnShellEdited>> }

SysExchangeToken == \E body \in Bodies : ExchangeToken(NextItemId, body)

\* a run of the migration that selects a row
SysMigrate ==
  /\ Len(Selected(plaid_items)) > 0
  /\ \E iv \in [1..Len(plaid_items) -> Ivs] : Migrate(iv)

SysStartFetchAccounts == StartFetchAccounts

SysAccountsOk ==
  \E id \in ItemIds : \E resp \in AccountResponses(id) : AccountsOk(resp)

SysAccountsFail == AccountsFail

SysStartIngest == \E kind \in Kinds : StartIngest(1, kind)

SysFetchOk == \E resp \in SysResponses : FetchOk(1, resp)

SysFetchFail == FetchFail(1)

SysInsertTxn == InsertTxn(1)

SysNext ==
  \/ SysExchangeToken
  \/ SysMigrate
  \/ SysStartFetchAccounts
  \/ SysAccountsOk
  \/ SysAccountsFail
  \/ SysStartIngest
  \/ SysFetchOk
  \/ SysFetchFail
  \/ SysInsertTxn

SpecSys == Init /\ [][SysNext]_vars

-----------------------------------------------------------------------------
(* Time, requests outside an ingest run, the daily workflow, the
   encrypt/decrypt harness *)

\* what the actions below leave alone
ingestVars == <<run, hist, lastDone, provider, epoch, started>>

catVars == <<catIn, catOut, catPrev>>

\* time passes
Tick ==
  /\ clock < MaxClock
  /\ clock' = clock + 1
  /\ UNCHANGED <<plaid_items, transactions, ingestVars, catVars, link, env,
                 proc, accounts, acct, argv, http, daily, cryptoIn, cryptoOut,
                 mig>>

\* a request that the preHandler hook answers with 401; the route's handler
\* does not run
Unauthorized(req) ==
  /\ proc["server.js"] = "up"
  /\ ~Admits(req, env)
  /\ http' = [req |-> req, code |-> 401, handler |-> FALSE]
  /\ UNCHANGED <<plaid_items, transactions, ingestVars, catVars, link, env,
                 proc, accounts, acct, clock, argv, daily, cryptoIn,
                 cryptoOut, mig>>

\* GET /health, GET /manual/accounts, GET /manual/transactions: the hook
\* lets the request pass, the handler reads and answers 200
ReadRoute(req) ==
  /\ proc["server.js"] = "up"
  /\ req.url \in {UrlHealth, UrlManualAccounts, UrlManualTransactions}
  /\ Admits(req, env)
  /\ http' = [req |-> req, code |-> 200, handler |-> TRUE]
  /\ UNCHANGED <<plaid_items, transactions, ingestVars, catVars, link, env,
                 proc, accounts, acct, clock, argv, daily, cryptoIn,
                 cryptoOut, mig>>

\* GET /link-token: linkTokenCreate resolves (200) or rejects (500)
LinkToken(req, ok) ==
  /\ proc["server.js"] = "up"
  /\ req.url = UrlLinkToken
  /\ Admits(req, env)
  /\ http' = [req |-> req, code |-> IF ok THEN 200 ELSE 500, handler |-> TRUE]
  /\ UNCHANGED <<plaid_items, transactions, ingestVars, catVars, link, env,
                 proc, accounts, acct, clock, argv, daily, cryptoIn,
                 cryptoOut, mig>>

\* node auto-daily.js: runAutoDaily begins and spawns the first script
StartDaily ==
  /\ daily.pc = "idle"
  /\ daily' = runScript(daily, Scripts[1])
  /\ UNCHANGED <<plaid_items, transactions, ingestVars, catVars, link, env,
                 proc, accounts, acct, clock, argv, http, cryptoIn, cryptoOut,
                 mig>>

\* the child of the step awaited closes with code
ChildClose(code) ==
  /\ daily.pc = "await"
  /\ daily' = onClose(daily, code, env)
  /\ UNCHANGED <<plaid_items, transactions, ingestVars, catVars, link, env,
                 proc, accounts, acct, clock, argv, http, cryptoIn, cryptoOut,
                 mig>>

\* the child of the step awaited could not be spawned
ChildError ==
  /\ daily.pc = "await"
  /\ daily' = onError(daily, env)
  /\ UNCHANGED <<plaid_items, transactions, ingestVars, catVars, link, env,
                 proc, accounts, acct, clock, argv, http, cryptoIn, cryptoOut,
                 mig>>

\* encrypt(text) in a process whose ENCRYPTION_KEY is that of env
Encrypt ==
  /\ cryptoIn # NoCall /\ cryptoOut.op = "none"
  /\ cryptoOut' = [cryptoOut EXCEPT
                     !.op = "encrypt",
                     !.enc = encrypt(cryptoIn.text, env["ENCRYPTION_KEY"],
                                     cryptoIn.iv)]
  /\ UNCHANGED <<plaid_items, transactions, ingestVars, catVars, link, env,
                 proc, accounts, acct, clock, argv, http, daily, cryptoIn,
                 mig>>

\* decrypt(encrypted) of the value encrypt returned, in a process whose
\* ENCRYPTION_KEY is cryptoIn.key
Decrypt ==
  /\ cryptoOut.op = "encrypt" /\ ~cryptoOut.enc.threw
  /\ cryptoOut' = [cryptoOut EXCEPT
                     !.op = "decrypt",
                     !.dec = decrypt(cryptoOut.enc.value, cryptoIn.key)]
  /\ UNCHANGED <<plaid_items, transactions, ingestVars, catVars, link, env,
                 proc, accounts, acct, clock, argv, http, daily, cryptoIn,
                 mig>>

\* decrypt(text) of a text that encrypt did not return
DecryptText ==
  /\ cryptoIn # NoCall /\ cryptoOut.op = "none"
  /\ cryptoOut' = [cryptoOut EXCEPT
                     !.op = "decrypt-text",
                     !.dec = decrypt(cryptoIn.text, cryptoIn.key)]
  /\ UNCHANGED <<plaid_items, transactions, ingestVars, catVars, link, env,
                 proc, accounts, acct, clock, argv, http, daily, cryptoIn,
                 mig>>

\* decrypt(item.access_token_enc) of a stored row with the column set
DecryptStored(j) ==
  /\ cryptoIn # NoCall /\ cryptoOut.op = "none"
  /\ j \in 1..Len(plaid_items)
  /\ plaid_items[j].access_token_enc # Null
  /\ cryptoOut' = [cryptoOut EXCEPT
                     !.op = "decrypt-stored", !.item = j,
                     !.dec = decrypt(plaid_items[j].access_token_enc,
                                     cryptoIn.key)]
  /\ UNCHANGED <<plaid_items, transactions, ingestVars, catVars, link, env,
                 proc, accounts, acct, clock, argv, http, daily, cryptoIn,
                 mig>>

-----------------------------------------------------------------------------
(* The lookback window: node ingest.js with every command line drawn and
   POST /ingest, one run at a time, while time passes *)

RangeInit ==
  /\ plaid_items = <<>>
  /\ transactions = <<>>
  /\ run = [r \in Runs |-> IdleRun]
  /\ hist = [r \in Runs |-> IdleHist]
  /\ lastDone = NoRun
  /\ provider = [id \in ItemIds |-> Unknown]
  /\ epoch = 0
  /\ started = 0
  /\ catIn = NoCall
  /\ catOut = NoCall
  /\ catPrev = NoCall
  /\ env = EnvComplete
  /\ proc = [p \in Procs |-> "up"]
  /\ accounts = <<>>
  /\ acct = IdleAcct
  /\ link = NoLink
  /\ clock = 0
  /\ argv \in ArgvChoices
  /\ http = NoHttp
  /\ daily = IdleDaily
  /\ cryptoIn = NoCall
  /\ cryptoOut = NoCrypto
  /\ mig = NoCall

RangeTick == Tick

RangeExchangeToken == \E body \in Bodies : ExchangeToken(NextItemId, body)

RangeStartIngest == \E kind \in Kinds : StartIngest(1, kind)

RangeFetchOk == \E resp \in {<<TxnShell>>} : FetchOk(1, resp)

RangeFetchFail == FetchFail(1)

RangeInsertTxn == InsertTxn(1)

RangeNext ==
  \/ RangeTick
  \/ RangeExchangeToken
  \/ RangeStartIngest
  \/ RangeFetchOk
  \/ RangeFetchFail
  \/ RangeInsertTxn

SpecRange == RangeInit /\ [][RangeNext]_vars

-----------------------------------------------------------------------------
(* The server's routes: every URL with every x-api-key header, API_KEY
   unset, empty or set; one ingest run at a time *)

HttpEnvs == { [EnvComplete EXCEPT !["API_KEY"] = k] : k \in {Null, <<>>, ApiKey} }

HttpInit ==
  /\ plaid_items = <<>>
  /\ transactions = <<>>
  /\ run = [r \in Runs |-> IdleRun]
  /\ hist = [r \in Runs |-> IdleHist]
  /\ lastDone = NoRun
  /\ provider = [id \in ItemIds |-> Unknown]
  /\ epoch = 0
  /\ started = 0
  /\ catIn = NoCall
  /\ catOut = NoCall
  /\ catPrev = NoCall
  /\ env \in HttpEnvs
  /\ proc = [p \in Procs |-> "up"]
  /\ accounts = <<>>
  /\ acct = IdleAcct
  /\ link = NoLink
  /\ clock = 0
  /\ argv = <<>>
  /\ http = NoHttp
  /\ daily = IdleDaily
  /\ cryptoIn = NoCall
  /\ cryptoOut = NoCrypto
  /\ mig = NoCall

IngestUrls == {UrlIngest, UrlManualIngest}

HttpExchangeToken == \E body \in Bodies : ExchangeToken(NextItemId, body)

HttpUnauthorized == \E req \in Requests : Unauthorized(req)

HttpReadRoute == \E req \in Requests : ReadRoute(req)

HttpLinkToken == \E req \in Requests, ok \in BOOLEAN : LinkToken(req, ok)

HttpIngest ==
  \E req \in Requests :
    req.url \in IngestUrls /\ StartIngestAt(1, "http", req)

HttpFetchOk == \E resp \in {<<TxnShell>>} : FetchOk(1, resp)

HttpFetchFail == FetchFail(1)

HttpInsertTxn == InsertTxn(1)

HttpNext ==
  \/ HttpExchangeToken
  \/ HttpUnauthorized
  \/ HttpReadRoute
  \/ HttpLinkToken
  \/ HttpIngest
  \/ HttpFetchOk
  \/ HttpFetchFail
  \/ HttpInsertTxn

SpecHttp == HttpInit /\ [][HttpNext]_vars

-----------------------------------------------------------------------------
(* Tokens: linking, the migration, encrypt and decrypt, with every value of
   ENCRYPTION_KEY drawn *)

TokEnvs ==
  { [EnvComplete EXCEPT !["ENCRYPTION_KEY"] = k] : k \in CryptoKeys }

TokInit ==
  /\ plaid_items = <<>>
  /\ transactions = <<>>
  /\ run = [r \in Runs |-> IdleRun]
  /\ hist = [r \in Runs |-> IdleHist]
  /\ lastDone = NoRun
  /\ provider = [id \in ItemIds |-> Unknown]
  /\ epoch = 0
  /\ started = 0
  /\ catIn = NoCall
  /\ catOut = NoCall
  /\ catPrev = NoCall
  /\ env \in TokEnvs
  /\ proc = [p \in Procs |-> "up"]
  /\ accounts = <<>>
  /\ acct = IdleAcct
  /\ link = NoLink
  /\ clock = 0
  /\ argv = <<>>
  /\ http = NoHttp
  /\ daily = IdleDaily
  /\ cryptoIn \in [text : CryptoTexts, iv : IvChoices,
                   key : {Null, Key8, Key64, Key64b}]
  /\ cryptoOut = NoCrypto
  /\ mig = NoCall

TokExchangeToken == \E body \in Bodies : ExchangeToken(NextItemId, body)

TokMigrate == \E iv \in [1..Len(plaid_items) -> IvChoices] : Migrate(iv)

TokEncrypt == Encrypt

TokDecrypt == Decrypt

TokDecryptText == DecryptText

TokDecryptStored == \E j \in ItemIds : DecryptStored(j)

TokNext ==
  \/ TokExchangeToken
  \/ TokMigrate
  \/ TokEncrypt
  \/ TokDecrypt
  \/ TokDecryptText
  \/ TokDecryptStored

SpecTok == TokInit /\ [][TokNext]_vars

-----------------------------------------------------------------------------
(* The daily workflow: its first child is a run of node ingest.js *)

\* the .env files the workflow is run with: complete, or PLAID_SECRET missing
DailyEnvs == { EnvComplete, [EnvComplete EXCEPT !["PLAID_SECRET"] = Null] }

\* the server runs if its start succeeded; node ingest.js is not running
DailyInit ==
  /\ plaid_items = <<>>
  /\ transactions = <<>>
  /\ run = [r \in Runs |-> IdleRun]
  /\ hist = [r \in Runs |-> IdleHist]
  /\ lastDone = NoRun
  /\ provider = [id \in ItemIds |-> Unknown]
  /\ epoch = 0
  /\ started = 0
  /\ catIn = NoCall
  /\ catOut = NoCall
  /\ catPrev = NoCall
  /\ env \in DailyEnvs
  /\ proc = [p \in Procs |->
               IF p = "ingest.js" THEN "off"
               ELSE IF loadEnv(env).threw THEN "failed" ELSE "up"]
  /\ accounts = <<>>
  /\ acct = IdleAcct
  /\ link = NoLink
  /\ clock = 0
  /\ argv = <<>>
  /\ http = NoHttp
  /\ daily = IdleDaily
  /\ cryptoIn = NoCall
  /\ cryptoOut = NoCrypto
  /\ mig = NoCall

\* the child of step 1 is running and its ingest() has not begun
IngestChildFresh ==
  /\ daily.pc = "await" /\ daily.step = 1
  /\ run[1].pc = "idle" /\ run[1].outcome = "none"

DailyExchangeToken == \E body \in Bodies : ExchangeToken(NextItemId, body)

DailyStart == StartDaily

\* the child node ingest.js passes or fails its loadEnv()
DailyStartup == IngestChildFresh /\ Startup("ingest.js")

DailyStartupFault == IngestChildFresh /\ StartupFault("ingest.js")

DailyStartIngest == IngestChildFresh /\ StartIngest(1, "cli")

DailyStartFatal == IngestChildFresh /\ StartFatal(1, "cli")

DailyFetchOk == \E resp \in {<<>>, <<TxnShell>>} : FetchOk(1, resp)

DailyFetchFail == FetchFail(1)

DailyInsertTxn == InsertTxn(1)

\* node ingest.js has called process.exit, or has ended on the exception
\* of loadEnv (exit code 1)
DailyIngestClose ==
  /\ daily.step = 1
  /\ \/ /\ run[1].outcome \in {"exit 0", "exit 1"}
        /\ ChildClose(ExitCodeOf(run[1]))
     \/ /\ proc["ingest.js"] = "failed"
        /\ ChildClose(1)

\* node export-csv.js or node audit-log.js ends
DailyChildClose ==
  /\ daily.step > 1
  /\ \E code \in ExitCodes : ChildClose(code)

\* spawn fails: the child never ran
DailyChildError ==
  /\ daily.step = 1 => (IngestChildFresh /\ proc["ingest.js"] = "off")
  /\ ChildError

DailyNext ==
  \/ DailyExchangeToken
  \/ DailyStart
  \/ DailyStartup
  \/ DailyStartupFault
  \/ DailyStartIngest
  \/ DailyStartFatal
  \/ DailyFetchOk
  \/ DailyFetchFail
  \/ DailyInsertTxn
  \/ DailyIngestClose
  \/ DailyChildClose
  \/ DailyChildError

SpecDaily == DailyInit /\ [][DailyNext]_vars

-----------------------------------------------------------------------------
(* The categorizer on its own: every combination of sample inputs, called
   twice with the same arguments, a row stored between the two calls *)

InitCat ==
  /\ plaid_items = <<>>
  /\ transactions = <<>>
  /\ run = [r \in Runs |-> IdleRun]
  /\ hist = [r \in Runs |-> IdleHist]
  /\ lastDone = NoRun
  /\ provider = [id \in ItemIds |-> Unknown]
  /\ epoch = 0
  /\ started = 0
  /\ catIn \in [name : CatInNames, merchant : CatInMerchants,
                rawCategory : CatInRawCategories]
  /\ catOut = NoCall
  /\ catPrev = NoCall
  /\ env = EnvComplete
  /\ proc = [p \in Procs |-> "up"]
  /\ accounts = <<>>
  /\ acct = IdleAcct
  /\ link = NoLink
  /\ clock = 0
  /\ argv = <<>>
  /\ http = NoHttp
  /\ daily = IdleDaily
  /\ cryptoIn = NoCall
  /\ cryptoOut = NoCrypto
  /\ mig = NoCall

Classify ==
  /\ catPrev = NoCall
  /\ catOut' = categorize(catIn.name, catIn.merchant, catIn.rawCategory)
  /\ catPrev' = catOut
  /\ UNCHANGED <<plaid_items, transactions, run, hist, lastDone, provider, epoch,
                 started, catIn, link, adminVars>>

\* between the two calls a transaction of an ingest run is stored
StoreBetweenCalls ==
  /\ catOut # NoCall /\ catPrev = NoCall
  /\ transactions = <<>>
  /\ transactions' =
       InsertOrIgnore(transactions,
                      Row([item_id |-> 1], TxnShell, categorizeTxn(TxnShell)))
  /\ UNCHANGED <<plaid_items, run, hist, lastDone, provider, epoch, started,
                 catIn, catOut, catPrev, link, adminVars>>

NextCat == Classify \/ StoreBetweenCalls

SpecCat == InitCat /\ [][NextCat]_vars


-----------------------------------------------------------------------------
(* Properties *)

Done(r) == run[r].pc = "done"

\* the errors a report carries; a report without the field carries none
ErrorsOf(rep) == IF "errors" \in DOMAIN rep THEN rep.errors ELSE <<>>

\* the number of new rows a report states
InsertedOf(rep) ==
  IF "inserted" \in DOMAIN rep THEN rep.inserted ELSE rep.total_inserted

CategorizedOf(rep) ==
  IF "categorized" \in DOMAIN rep THEN rep.categorized ELSE rep.total_categorized

FetchedOf(rep) ==
  IF "total_fetched" \in DOMAIN rep THEN rep.total_fetched
  ELSE rep.total_transactions_fetched

HasCounts(rep) == "total_items" \in DOMAIN rep

\* how many entries of a sequence of error records name item id
EntriesFor(entries, id) ==
  Cardinality({ j \in 1..Len(entries) : entries[j].item_id = id })

\* the ingest-item error entries of a run's log
LoggedErrors(log) ==
  SelectSeq(log, LAMBDA e : e.status = "error" /\ "item_id" \in DOMAIN e)

RECURSIVE SumReturned(_)
SumReturned(out) ==
  IF Len(out) = 0 THEN 0 ELSE out[1].returned + SumReturned(Tail(out))

\* C1: a run that follows a completed run, with the same linked items and
\* the same provider data and no other run in progress, reports
\* totalInserted = 0 and totalCategorized = 0 and leaves the number of rows
\* of the transactions table unchanged.
C1_Idempotent ==
  \A r \in Runs :
    (Done(r) /\ hist[r].same /\ hist[r].alone) =>
      /\ run[r].totalInserted = 0
      /\ run[r].totalCategorized = 0
      /\ hist[r].rowsAtEnd = hist[r].rowsAtStart

\* C2: every step of every run leaves each stored transactions row exactly
\* as it was: a fetched transaction whose transaction_id is already stored
\* changes nothing of the stored row.
C2_StoredRowsKept ==
  [][\A j \in 1..Len(transactions) :
       \E m \in 1..Len(transactions') : transactions'[m] = transactions[j]]_vars

\* C2 witness: a run has just attempted to insert a transaction whose id is
\* stored with another name and another category than the categorizer gives
C2_Witness ==
  \E r \in Runs :
    /\ run[r].pc = "insert" /\ run[r].k >= 2 /\ run[r].changes = 0
    /\ \E j \in 1..Len(transactions) :
         LET txn == run[r].txns[run[r].k - 1] IN
         /\ transactions[j].transaction_id = txn.transaction_id
         /\ transactions[j].name # txn.name
         /\ transactions[j].ai_category # CatOf[txn].category

\* C3: no two rows of the transactions table have the same transaction_id.
C3_UniqueTransactionId ==
  \A j, m \in 1..Len(transactions) :
    j # m => transactions[j].transaction_id # transactions[m].transaction_id

\* C3 witness: two runs are in progress, one of them has just attempted to
\* insert an id that is already stored
C3_Witness ==
  \E r, q \in Runs :
    /\ r # q /\ Active(run[q])
    /\ run[r].pc = "insert" /\ run[r].k >= 2 /\ run[r].changes = 0
    /\ Len(transactions) >= 2

\* C4: in a completed run (no other run in progress) where the fetch of
\* item a failed and the fetch of item b returned a transaction not yet
\* stored, the report's errors list names a and the reported number of
\* inserted rows is positive.
C4_PerItemIsolation ==
  \A r \in Runs :
    (Done(r) /\ hist[r].alone) =>
      \A a, b \in 1..Len(run[r].items) :
        (~hist[r].out[a].ok /\ hist[r].out[b].ok /\ hist[r].out[b].new) =>
          /\ EntriesFor(ErrorsOf(run[r].report), run[r].items[a].item_id) > 0
          /\ InsertedOf(run[r].report) > 0

\* C5: in every state of every run totalInserted = totalCategorized, and the
\* two numbers of the report are equal.
C5_CountersEqual ==
  \A r \in Runs :
    /\ run[r].totalInserted = run[r].totalCategorized
    /\ HasCounts(run[r].report) =>
         InsertedOf(run[r].report) = CategorizedOf(run[r].report)

\* C5 witness: a completed run that stored a row and in which the handling
\* of an item stopped part-way, after a successful fetch
C5_Witness ==
  \E r \in Runs :
    /\ Done(r) /\ run[r].totalInserted > 0
    /\ \E i \in 1..Len(hist[r].out) : hist[r].out[i].ok /\ hist[r].out[i].threw

\* C6 as stated: the report of a completed run lists in errors exactly one
\* entry for each item whose fetch failed and none for an item that was
\* handled without an error (a report without the field lists none).
C6_ReportListsFailures ==
  \A r \in Runs :
    Done(r) =>
      \A i \in 1..Len(run[r].items) :
        LET n == EntriesFor(ErrorsOf(run[r].report), run[r].items[i].item_id) IN
        /\ ~hist[r].out[i].ok => n = 1
        /\ ~hist[r].out[i].threw => n = 0

\* C6 amended: the summary of a CLI run lists in errors exactly one entry
\* for each item whose handling threw (a failed fetch, or a fault while its
\* transactions were handled) and none for the other items, and has no
\* errors field when no item threw; the report of ingestForAllItems has the
\* four counters only, and the log has one ingest-item error entry for each
\* item whose handling threw.
C6_ErrorsInCliSummaryOnly ==
  \A r \in Runs :
    (Done(r) /\ Len(run[r].items) > 0) =>
      LET rep == run[r].report
          entries == IF run[r].kind = "cli" THEN ErrorsOf(rep)
                     ELSE LoggedErrors(run[r].log)
      IN /\ \A i \in 1..Len(run[r].items) :
              EntriesFor(entries, run[r].items[i].item_id)
                = IF hist[r].out[i].threw THEN 1 ELSE 0
         /\ run[r].kind = "cli" =>
              ("errors" \in DOMAIN rep <=> Len(run[r].errors) > 0)
         /\ run[r].kind = "http" =>
              DOMAIN rep = {"total_items", "total_fetched", "total_inserted",
                            "total_categorized"}

\* C6 witness: a completed HTTP run in which one item's fetch failed and
\* another item was handled without an error
C6_Witness ==
  \E r \in Runs :
    /\ Done(r) /\ run[r].kind = "http"
    /\ \E a, b \in 1..Len(run[r].items) :
         ~hist[r].out[a].ok /\ ~hist[r].out[b].threw

\* C7: when an insert of a run fails with a storage fault, the run is
\* aborted there: it ends with the fault propagated to its caller and no
\* further item is fetched.
C7_StorageFaultFatal ==
  \A r \in Runs :
    \A i \in 1..Len(hist[r].out) :
      (hist[r].out[i].ok /\ hist[r].out[i].threw) =>
        /\ run[r].pc = "fatal"
        /\ Len(hist[r].out) = i

C9_CountingRule ==
  \A r \in Runs :
    (Done(r) /\ HasCounts(run[r].report)) =>
      /\ run[r].totalFetched = SumReturned(hist[r].out)
      /\ hist[r].alone =>
           run[r].totalInserted = hist[r].rowsAtEnd - hist[r].rowsAtStart
      /\ run[r].totalInserted <= run[r].totalFetched
      /\ FetchedOf(run[r].report) = run[r].totalFetched
      /\ InsertedOf(run[r].report) = run[r].totalInserted

\* C9 witness: a completed run, alone, that fetched more transactions than
\* it stored and stored at least one
C9_Witness ==
  \E r \in Runs :
    /\ Done(r) /\ hist[r].alone
    /\ run[r].totalInserted > 0
    /\ run[r].totalFetched > run[r].totalInserted

\* the rules in the order Fuel, Groceries, Coffee, Home-improvement,
\* Restaurant, Utilities
RuleOrder ==
  << [pattern |-> FuelPattern, label |-> "Auto:Fuel"],
     [pattern |-> GroceriesPattern, label |-> "Groceries"],
     [pattern |-> CoffeePattern, label |-> "Dining:Coffee"],
     [pattern |-> HomeImprovementPattern, label |-> "Property:Materials"],
     [pattern |-> RestaurantPattern, label |-> "Dining:Restaurant"],
     [pattern |-> UtilitiesPattern, label |-> "Utilities"] >>

\* an input as lowercase text, an absent one as the empty text
Lowered(x) == IF x = Null THEN <<>> ELSE toLowerCase(x)

\* the lowercased inputs, one after the other, a space between them
LoweredInputs(in) ==
  Lowered(in.name) \o <<" ">> \o Lowered(in.merchant) \o <<" ">>
    \o Lowered(in.rawCategory)

FirstMatching(c) ==
  IF \E i \in 1..Len(RuleOrder) : match(c, RuleOrder[i].pattern)
  THEN RuleOrder[CHOOSE i \in 1..Len(RuleOrder) :
                   /\ match(c, RuleOrder[i].pattern)
                   /\ \A j \in 1..(i - 1) : ~match(c, RuleOrder[j].pattern)].label
  ELSE "Uncategorized"

\* C10: categorize returns the label of the first rule, in the order Fuel,
\* Groceries, Coffee, Home-improvement, Restaurant, Utilities, whose pattern
\* occurs in the lowercased inputs; an input with a fuel keyword gives
\* Auto:Fuel; a keyword in merchant alone or in rawCategory alone matches.
C10_Precedence ==
  catOut # NoCall =>
    LET c == LoweredInputs(catIn) IN
    /\ catOut.category = FirstMatching(c)
    /\ match(c, FuelPattern) => catOut.category = "Auto:Fuel"
    /\ \A i \in 1..Len(RuleOrder) :
         (\/ match(Lowered(catIn.merchant), RuleOrder[i].pattern)
          \/ match(Lowered(catIn.rawCategory), RuleOrder[i].pattern))
           => catOut.category \in { RuleOrder[j].label : j \in 1..i }

\* C10 witness: the name has no keyword, the merchant has a fuel keyword,
\* rawCategory has a restaurant keyword, and the result is Auto:Fuel
C10_Witness ==
  /\ catOut # NoCall
  /\ catOut.category = "Auto:Fuel"
  /\ ~\E i \in 1..Len(RuleOrder) : match(Lowered(catIn.name), RuleOrder[i].pattern)
  /\ match(Lowered(catIn.merchant), FuelPattern)
  /\ match(Lowered(catIn.rawCategory), RuleOrder[5].pattern)

\* the labels of the six rules
RuleLabels == { RuleOrder[i].label : i \in 1..Len(RuleOrder) }

\* C11: categorize returns confidence 0.3 exactly when it returns the label
\* Uncategorized, which it does exactly when no rule's pattern occurs in the
\* lowercased inputs; otherwise it returns confidence 0.9 with one of the six
\* rule labels; it returns no other label and no other confidence.
C11_ConfidenceTag ==
  catOut # NoCall =>
    LET c == LoweredInputs(catIn)
        none == \A i \in 1..Len(RuleOrder) : ~match(c, RuleOrder[i].pattern)
    IN /\ DOMAIN catOut = {"category", "confidence"}
       /\ catOut.confidence \in {ConfMatched, ConfDefault}
       /\ catOut.category \in RuleLabels \cup {"Uncategorized"}
       /\ catOut.confidence = ConfDefault <=> catOut.category = "Uncategorized"
       /\ catOut.category = "Uncategorized" <=> none
       /\ ~none => catOut.confidence = ConfMatched /\ catOut.category \in RuleLabels

\* C11 witness: a name without any keyword, merchant and rawCategory absent,
\* gives Uncategorized with confidence 0.3
C11_Witness ==
  /\ catOut # NoCall
  /\ catIn.name = NameAcme /\ catIn.merchant = Null /\ catIn.rawCategory = Null
  /\ catOut = [category |-> "Uncategorized", confidence |-> ConfDefault]

C15_SequentialItems ==
  [][\A r \in Runs :
       LET a == run[r]
           b == run'[r]
           closes == \/ a.pc = "fetch"
                     \/ a.pc = "insert" /\ a.k = Len(a.txns)
       IN /\ (b.pc = "fetch" /\ (a.pc # "fetch" \/ a.i # b.i)) =>
               \/ ~Active(a) /\ b.i = 1
               \/ Active(a) /\ b.items = a.items /\ b.i = a.i + 1 /\ closes
          /\ (b.pc = "insert" /\ a # b) =>
               /\ Active(a) /\ b.items = a.items /\ b.i = a.i
               /\ \/ a.pc = "fetch" /\ b.k = 1
                  \/ a.pc = "insert" /\ b.k = a.k + 1
          /\ (b.pc = "done" /\ Active(a)) =>
               b.items = a.items /\ a.i = Len(a.items) /\ closes]_vars

\* C16: no step shortens or rewrites the transactions table: after every
\* step, the steps in which a fetch fails or an insert throws and the step
\* that ends a run included, the rows stored before it are all in place.
C16_PartialProgressDurable ==
  [][/\ Len(transactions') >= Len(transactions)
     /\ SubSeq(transactions', 1, Len(transactions)) = transactions]_vars

\* C16 witness: a run has ended after an item's rows were stored and the
\* fetch of a later item failed, and the rows it counted are in the table
C16_Witness ==
  \E r \in Runs :
    /\ Done(r) /\ run[r].totalInserted > 0
    /\ \E i, j \in 1..Len(hist[r].out) :
         i < j /\ hist[r].out[i].new /\ ~hist[r].out[j].ok
    /\ Len(transactions) >= hist[r].rowsAtStart + run[r].totalInserted

C13_AccountUpsert ==
  [][accounts' # accounts =>
       \E id \in ItemIds : \E resp \in AccountResponses(id) :
         /\ \A n \in 1..Len(resp) :
              LET rows == { m \in 1..Len(accounts') :
                              accounts'[m].account_id = resp[n].account_id }
              IN /\ Cardinality(rows) = 1
                 /\ \A m \in rows :
                      /\ accounts'[m].name = resp[n].name
                      /\ accounts'[m].type = resp[n].type
                      /\ accounts'[m].subtype = resp[n].subtype
                      /\ accounts'[m].mask = resp[n].mask
         /\ \A j \in 1..Len(accounts) :
              (\A n \in 1..Len(resp) :
                 accounts[j].account_id # resp[n].account_id) =>
                \E m \in 1..Len(accounts') : accounts'[m] = accounts[j]]_vars

\* C14: every provider call made for a plaid_items row whose
\* access_token_enc is populated, by an ingest run or by the account fetch,
\* passes the credential read from access_token_enc.
C14_EncryptedTokenAuthoritative ==
  /\ \A r \in Runs :
       (run[r].cred # NoCred /\ run[r].cred.enc) =>
         run[r].cred.column = "access_token_enc"
  /\ (acct.cred # NoCred /\ acct.cred.enc) =>
       acct.cred.column = "access_token_enc"

\* the variables loadEnv demands
RequiredEnv == {"PLAID_CLIENT_ID", "PLAID_SECRET", "PLAID_ENV"}

\* C18: with one of PLAID_CLIENT_ID, PLAID_SECRET, PLAID_ENV unset or
\* empty, no process gets past its start: the store is not opened, no
\* request is handled, no run begins, the provider is not called and no row
\* is written; and a process fails at its start for no other reason.
C18_ConfigFaultFatal ==
  LET missing == { key \in RequiredEnv : env[key] = Null \/ env[key] = <<>> } IN
  /\ missing # {} =>
       /\ \A p \in Procs : proc[p] \in {"off", "failed"}
       /\ plaid_items = <<>> /\ transactions = <<>>
       /\ started = 0 /\ \A r \in Runs : run[r] = IdleRun
       /\ \A id \in ItemIds : provider[id] = Unknown
       /\ link = NoLink
  /\ \A p \in Procs : proc[p] = "failed" => missing # {}
  /\ \A r \in Runs : run[r].pc # "idle" => missing = {}

\* C18 witness: PLAID_CLIENT_ID is set, PLAID_SECRET is empty, and both
\* processes have failed at their start
C18_Witness ==
  /\ env["PLAID_CLIENT_ID"] # Null /\ env["PLAID_SECRET"] = <<>>
  /\ \A p \in Procs : proc[p] = "failed"

\* C19: a step of an ingest run leaves plaid_items and accounts unchanged
\* and leaves every stored transactions row in its place: the table after
\* the step is the table before it, with rows added at its end or none.
C19_IngestOnlyAdds ==
  [][run' # run =>
       /\ plaid_items' = plaid_items
       /\ accounts' = accounts
       /\ Len(transactions') >= Len(transactions)
       /\ \A j \in 1..Len(transactions) : transactions'[j] = transactions[j]
       /\ { transactions[j].transaction_id : j \in 1..Len(transactions) }
            \subseteq
          { transactions'[j].transaction_id : j \in 1..Len(transactions') }]_vars

\* C19 witness: a run whose item has a populated access_token_enc has
\* stored one row and is about to insert a transaction with the same id,
\* while the accounts table has rows
C19_Witness ==
  /\ run[1].pc = "insert" /\ run[1].k = 2 /\ run[1].changes = 1
  /\ run[1].txns[2].transaction_id = run[1].txns[1].transaction_id
  /\ run[1].items[1].access_token_enc # Null
  /\ Len(accounts) > 0

Ranged(rec) == rec.pc \in {"fetch", "insert", "done"} /\ Len(rec.items) > 0

\* C21: a run's lookback window is 30 days unless node ingest.js is given
\* --days=N (then N); endDate is the day on which the range was computed and
\* startDate the day lookbackDays before it, so startDate <= endDate for a
\* positive lookbackDays; the range is computed once, before the item loop,
\* and every item of the run is fetched with it
C21_LookbackRange ==
  \A r \in Runs :
    Ranged(run[r]) =>
      /\ (run[r].kind = "http" \/ daysArg(argv) = Null)
            => run[r].lookback = Num(DefaultLookbackDays)
      /\ (run[r].kind = "cli" /\ argv = << DaysFlag \o <<"7">> >>)
            => run[r].lookback = Num(7)
      /\ (run[r].kind = "cli" /\ Len(argv) = 2)
            => run[r].lookback = Num(12)
      /\ run[r].endDate = toISODate(run[r].startedAt)
      /\ run[r].endDate - run[r].startDate = run[r].lookback.n
      /\ run[r].lookback.n > 0 => run[r].startDate <= run[r].endDate
      /\ \A j \in 1..Len(hist[r].out) :
            hist[r].out[j].range =
              [start_date |-> run[r].startDate, end_date |-> run[r].endDate]

\* node ingest.js --days=7 has fetched two items, the second on the day after
\* the range was computed
C21_Witness ==
  /\ run[1].pc = "done" /\ run[1].kind = "cli"
  /\ run[1].lookback = Num(7)
  /\ Len(hist[1].out) = 2
  /\ toISODate(clock) > run[1].endDate
  /\ run[1].startedAt > 0

\* the x-api-key header of req is present and equal to the configured API_KEY
HasKey(req, e) == req.apiKey # Null /\ req.apiKey # <<>> /\ req.apiKey = e["API_KEY"]

\* C22: a request whose URL starts with /manual/ has its handler run (a read
\* answered, an ingest run begun) only with an x-api-key header equal to the
\* configured API_KEY; otherwise it is answered 401 by a step that changes
\* no table and begins no run; with API_KEY unset or empty every such
\* request is answered 401
C22_ManualGate ==
  [][ /\ \A r \in Runs :
           Gated(run'[r].req.url) => HasKey(run'[r].req, env')
      /\ Gated(http'.req.url) =>
           IF HasKey(http'.req, env')
           THEN http'.code # 401 /\ http'.handler
           ELSE http'.code = 401 /\ ~http'.handler
      /\ (http' # http /\ http'.code = 401) =>
           UNCHANGED <<plaid_items, transactions, accounts, run, hist,
                       started, provider, link>>
      /\ (env'["API_KEY"] = Null \/ env'["API_KEY"] = <<>>) =>
           /\ \A r \in Runs : ~Gated(run'[r].req.url)
           /\ Gated(http'.req.url) => http'.code = 401
    ]_vars

\* POST /manual/ingest with a wrong key was answered 401 while an item is
\* linked: no run has begun and no row is stored
C22_Witness ==
  /\ http.code = 401 /\ http.req = [url |-> UrlManualIngest, apiKey |-> WrongKey]
  /\ env["API_KEY"] = ApiKey
  /\ Len(plaid_items) > 0
  /\ started = 0 /\ transactions = <<>>

\* POST /manual/ingest with the right key has run: rows are stored
C22_WitnessAdmitted ==
  /\ run[1].pc = "done" /\ run[1].req.url = UrlManualIngest
  /\ run[1].totalInserted > 0

\* C30: the key check rejects only URLs that start with /manual/, which are
\* the three /manual/ routes: a request to /health, /link-token,
\* /exchange-token or POST /ingest passes with any or no x-api-key header
\* whatever API_KEY is, a 401 answer belongs to a /manual/ URL, and
\* POST /ingest begins an ingest run for every header whenever a run can
\* begin at all, so its runs exist without the key
C30_KeyCheckScope ==
  /\ \A req \in Requests :
       Gated(req.url) <=>
         req.url \in {UrlManualAccounts, UrlManualTransactions, UrlManualIngest}
  /\ \A req \in Requests : ~Gated(req.url) => Admits(req, env)
  /\ http.code = 401 => Gated(http.req.url)
  /\ \A key \in HeaderKeys :
       (proc["server.js"] = "up" /\ ~Active(run[1]) /\ started < MaxStarts)
         => ENABLED StartIngestAt(1, "http", [url |-> UrlIngest, apiKey |-> key])
  /\ \A r \in Runs :
       (run[r].pc = "done" /\ run[r].req.url \in IngestUrls)
         => /\ run[r].outcome = "200"
            /\ run[r].report.total_inserted = run[r].totalInserted

\* POST /ingest without a key has stored rows while API_KEY is set
C30_Witness ==
  /\ env["API_KEY"] = ApiKey
  /\ run[1].pc = "done"
  /\ run[1].req = [url |-> UrlIngest, apiKey |-> Null]
  /\ run[1].totalInserted > 0
  /\ Len(transactions) > 0

\* the key passes the checks of encrypt and decrypt and of the cipher
ValidKey(key) == ~KeyRejected(key)

\* C23: with a valid ENCRYPTION_KEY, encrypt returns a text of three
\* colon-separated parts that decrypt accepts, and decrypt under the same key
\* returns the token that was encrypted; so does decrypt of a stored
\* access_token_enc, which returns the row's access_token
C23_RoundTrip ==
  /\ (cryptoOut.op \in {"encrypt", "decrypt"} /\ ValidKey(env["ENCRYPTION_KEY"]))
       => /\ ~cryptoOut.enc.threw
          /\ SplitLength(cryptoOut.enc.value) = 3
          /\ Len(split(cryptoOut.enc.value, ":")) = 3
          /\ ~decrypt(cryptoOut.enc.value, env["ENCRYPTION_KEY"]).threw
  /\ (cryptoOut.op = "decrypt" /\ ValidKey(env["ENCRYPTION_KEY"])
        /\ cryptoIn.key = env["ENCRYPTION_KEY"])
       => /\ ~cryptoOut.dec.threw
          /\ cryptoOut.dec.value = cryptoIn.text
  /\ \A j \in 1..Len(plaid_items) :
       plaid_items[j].access_token_enc # Null
         => /\ SplitLength(plaid_items[j].access_token_enc) = 3
            /\ decrypt(plaid_items[j].access_token_enc, env["ENCRYPTION_KEY"])
                 = [threw |-> FALSE, value |-> plaid_items[j].access_token]

\* a token with a colon in it was encrypted and decrypted under one valid key
C23_Witness ==
  /\ cryptoOut.op = "decrypt"
  /\ ValidKey(env["ENCRYPTION_KEY"]) /\ cryptoIn.key = env["ENCRYPTION_KEY"]
  /\ cryptoIn.text = <<"0","1",":","a","b">>
  /\ cryptoOut.dec.value = cryptoIn.text
  /\ \E j \in 1..Len(plaid_items) : plaid_items[j].access_token_enc # Null

\* ENCRYPTION_KEY is missing or is not 64 characters long
KeyMissingOrShort(key) == key = Null \/ Len(key) # 64

\* the rows a migration run tries to encrypt
ToEncrypt(table) ==
  SelectSeq(Selected(table),
            LAMBDA j : ~LooksEncrypted(table[j].access_token))

\* C24: encrypt and decrypt throw and return nothing when ENCRYPTION_KEY is
\* missing or not 64 characters long, decrypt throws on a text that has not
\* exactly three colon-separated parts, and a failing call changes no table;
\* a migration under such a key counts every row it tried as an error and
\* writes nothing
C24_CredentialErrors ==
  [][ /\ (cryptoOut'.op = "encrypt" /\ cryptoOut.op = "none"
            /\ KeyMissingOrShort(env["ENCRYPTION_KEY"]))
           => cryptoOut'.enc = [threw |-> TRUE, value |-> <<>>]
      /\ (cryptoOut' # cryptoOut
            /\ cryptoOut'.op \in {"decrypt", "decrypt-text", "decrypt-stored"}
            /\ KeyMissingOrShort(cryptoIn.key))
           => cryptoOut'.dec = [threw |-> TRUE, value |-> <<>>]
      /\ (cryptoOut'.op = "decrypt-text" /\ cryptoOut.op = "none"
            /\ SplitLength(cryptoIn.text) # 3)
           => cryptoOut'.dec = [threw |-> TRUE, value |-> <<>>]
      /\ cryptoOut' # cryptoOut
           => UNCHANGED <<plaid_items, transactions, accounts, env>>
      /\ (mig' # mig /\ KeyMissingOrShort(env["ENCRYPTION_KEY"]))
           => /\ plaid_items' = plaid_items
              /\ mig'.encrypted = 0
              /\ mig'.errors = Len(ToEncrypt(plaid_items))
    ]_vars

\* under an 8-character key a migration counted an error for the stored row
\* and left it alone, and decrypt threw on a four-part text
C24_Witness ==
  /\ env["ENCRYPTION_KEY"] = Key8
  /\ mig # NoCall /\ mig.errors > 0
  /\ \A j \in 1..Len(plaid_items) : plaid_items[j].access_token_enc = Null
  /\ cryptoOut.op = "decrypt-text"
  /\ cryptoIn.key = Key64 /\ SplitLength(cryptoIn.text) = 4
  /\ cryptoOut.dec.threw

\* C27: a step of the migration adds and deletes no plaid_items row, leaves
\* item_id, access_token, created_at and every other column of every row as
\* they were and writes access_token_enc only where it was NULL; it reports as
\* total the rows it selected; after a run that encrypted every row it
\* selected no row is left to select, and a run that selects no row reports
\* nothing to migrate and changes no row
C27_MigrationIdempotent ==
  [][ /\ Len(plaid_items') >= Len(plaid_items)
      /\ Len(plaid_items') > Len(plaid_items) => mig' = mig
      /\ Len(plaid_items') = Len(plaid_items) =>
           /\ \A j \in 1..Len(plaid_items) :
                /\ plaid_items'[j].item_id = plaid_items[j].item_id
                /\ plaid_items'[j].access_token = plaid_items[j].access_token
                /\ plaid_items'[j].created_at = plaid_items[j].created_at
                /\ [plaid_items'[j] EXCEPT
                      !.access_token_enc = plaid_items[j].access_token_enc]
                     = plaid_items[j]
                /\ plaid_items'[j].access_token_enc # plaid_items[j].access_token_enc
                     => plaid_items[j].access_token_enc = Null
           /\ (mig' # mig \/ plaid_items' # plaid_items) =>
                /\ mig'.total = Len(Selected(plaid_items))
                /\ mig'.encrypted = mig'.total
                     => Selected(plaid_items') = <<>>
                /\ Selected(plaid_items) = <<>> =>
                     /\ plaid_items' = plaid_items
                     /\ mig' = [total |-> 0, encrypted |-> 0, errors |-> 0]
    ]_vars

\* two rows were encrypted and a later run has found nothing to migrate
C27_Witness ==
  /\ Len(plaid_items) = 2
  /\ \A j \in 1..Len(plaid_items) : plaid_items[j].access_token_enc # Null
  /\ plaid_items[1].access_token_enc # plaid_items[2].access_token_enc
  /\ mig = [total |-> 0, encrypted |-> 0, errors |-> 0]

\* the children of the workflow that closed with exit code 0
ClosedOk(d, k) == d.children[k].state = "closed" /\ d.children[k].code = 0

DailyLogged(status) ==
  \E j \in 1..Len(daily.log) : daily.log[j].status = status

\* C25: the children are spawned in the order ingest.js, export-csv.js,
\* audit-log.js; a child exists only when every earlier child has closed with
\* code 0 (the ingest child having ended its run with exit 0), at most one
\* child runs at a time, and auto-daily-complete is logged only when all three
\* have closed with code 0
C25_DailyOrdering ==
  /\ Len(daily.children) <= Len(Scripts)
  /\ \A k \in 1..Len(daily.children) :
       /\ daily.children[k].script = Scripts[k]
       /\ \A h \in 1..(k - 1) : ClosedOk(daily, h)
  /\ Cardinality({ k \in 1..Len(daily.children) :
                     daily.children[k].state = "running" }) <= 1
  /\ Len(daily.children) >= 2 =>
       run[1].outcome = "exit 0" /\ ~Active(run[1])
  /\ DailyLogged("auto-daily-complete") =>
       /\ Len(daily.children) = Len(Scripts)
       /\ \A k \in 1..Len(Scripts) : ClosedOk(daily, k)
       /\ daily.results =
            [k \in 1..Len(Scripts) |-> [script |-> Scripts[k], code |-> 0]]

\* the three steps ran one after the other, the ingest storing a row, and
\* the summary is logged
C25_Witness ==
  /\ DailyLogged("auto-daily-complete")
  /\ daily.exit = 0
  /\ run[1].totalInserted > 0
  /\ Len(transactions) > 0

\* the workflow has ended on a step that did not close with code 0
DailyStepFailed ==
  /\ daily.pc = "done"
  /\ Len(daily.children) > 0
  /\ ~ClosedOk(daily, Len(daily.children))

\* what C26 says of a failed step: no later step, one auto-daily-error
\* record with the steps that closed with code 0, exit code 1
DailyFailureHandled ==
  DailyStepFailed =>
    /\ daily.step = Len(daily.children)
    /\ \A k \in 1..(Len(daily.children) - 1) : ClosedOk(daily, k)
    /\ Len(daily.log) = 1
    /\ daily.log[1].status = "auto-daily-error"
    /\ daily.log[1].completed_steps =
         [k \in 1..(Len(daily.children) - 1) |-> Scripts[k]]
    /\ daily.exit = 1

\* an ingest run that ended with only per-item errors, or with no item
\* linked, closed with code 0 and the workflow went on to export-csv.js
DailyIngestErrorsPass ==
  (/\ Len(daily.children) >= 1
   /\ daily.children[1].state = "closed"
   /\ run[1].pc = "done")
    => /\ daily.children[1].code = 0
       /\ Len(daily.children) >= 2

\* C26: when a step exits with a non-zero code or cannot be spawned, no
\* later step is started, an auto-daily-error record is logged whose
\* completed_steps are the steps that finished with code 0, and the workflow
\* exits with code 1; an ingest run with only per-item errors or no linked
\* item does not stop the workflow
C26_DailyFailureHandling ==
  /\ DailyFailureHandled
  /\ DailyIngestErrorsPass

\* the same with the variables that loadEnv requires all set
C26_HandledWhenEnvComplete ==
  ~logCccThrows(env) => C26_DailyFailureHandling

\* export-csv.js failed after an ingest run whose only item failed to fetch
C26_WitnessEnvComplete ==
  /\ DailyStepFailed /\ Len(daily.children) = 2
  /\ Len(run[1].errors) > 0
  /\ DailyLogged("auto-daily-error")

\* the runs whose totalInserted a step raises by one
Counting(r) == run'[r].totalInserted = run[r].totalInserted + 1

\* C28: with runs interleaved at their provider calls, every step that
\* begins no run adds to the transactions table as many rows as the runs'
\* totalInserted counters rise together, at most one row and one counter at
\* a time, never lowers a counter, and no transaction_id is stored twice; so
\* of two runs that fetched the same new transaction exactly one counts it
C28_InterleavedRuns ==
  [][ /\ \A a, b \in 1..Len(transactions') :
           transactions'[a].transaction_id = transactions'[b].transaction_id
             => a = b
      /\ started' = started =>
           /\ \A r \in Runs :
                Counting(r) \/ run'[r].totalInserted = run[r].totalInserted
           /\ Len(transactions') - Len(transactions)
                = Cardinality({ r \in Runs : Counting(r) })
           /\ Cardinality({ r \in Runs : Counting(r) }) <= 1
    ]_vars

\* two runs behind HTTP requests were in progress together, each was
\* answered the same transaction while it was not yet stored; the row is
\* stored once, the first run counted it, the second did not
C28_Witness ==
  /\ run[1].pc = "done" /\ run[2].pc = "done"
  /\ run[1].kind = "http" /\ run[2].kind = "http"
  /\ ~hist[1].alone /\ ~hist[2].alone
  /\ \A r \in {1, 2} :
       /\ Len(hist[r].out) = 1
       /\ hist[r].out[1].returned = 1 /\ hist[r].out[1].new
       /\ hist[r].out[1].item_id = 1
  /\ provider[1] = Answers(<<TxnShell>>)
  /\ Len(transactions) = 1
  /\ run[1].totalInserted = 1 /\ run[2].totalInserted = 0

\* the item at hand of run r was fetched and handling one of its
\* transactions throws in this step
ThrowsInItem(r) ==
  /\ run[r].pc = "insert"
  /\ ~hist[r].out[run[r].i].threw
  /\ Len(hist'[r].out) = Len(hist[r].out)
  /\ hist'[r].out[run[r].i].threw

\* the per-item error records of a run: errors (ingest.js), the ingest-item
\* entries of the log (server.js)
ItemErrors(rec) ==
  IF rec.kind = "cli" THEN rec.errors ELSE LoggedErrors(rec.log)

\* C29: when handling the k-th transaction of a fetched item throws, the
\* table is left as it is with the item's rows stored so far, totalInserted
\* and totalCategorized keep their values, totalFetched keeps the item's full
\* count, exactly one error record is added and it names the item, the
\* item's remaining transactions are not handled, and the run goes on to
\* fetch the next item or, after the last item, ends as a completed run
C29_MidItemFailure ==
  [][ \A r \in Runs :
        ThrowsInItem(r) =>
          LET a == run[r]
              b == run'[r]
              id == a.items[a.i].item_id
          IN /\ transactions' = transactions
             /\ b.totalInserted = a.totalInserted
             /\ b.totalCategorized = a.totalCategorized
             /\ b.totalFetched = a.totalFetched
             /\ b.totalFetched = SumReturned(hist'[r].out)
             /\ hist'[r].out[a.i].returned = Len(a.txns)
             /\ Len(ItemErrors(b)) = Len(ItemErrors(a)) + 1
             /\ EntriesFor(ItemErrors(b), id) = EntriesFor(ItemErrors(a), id) + 1
             /\ b.txns = <<>> /\ b.k = 0
             /\ b.items = a.items
             /\ IF a.i < Len(a.items)
                THEN b.pc = "fetch" /\ b.i = a.i + 1
                ELSE /\ b.pc = "done"
                     /\ b.outcome = (IF a.kind = "cli" THEN "exit 0" ELSE "200")
                     /\ InsertedOf(b.report) = a.totalInserted
                     /\ FetchedOf(b.report) = a.totalFetched
    ]_vars

\* the second of two transactions of the first item threw after the first
\* was stored and counted; the run is fetching the second item
C29_Witness ==
  \E r \in Runs :
    /\ run[r].pc = "fetch" /\ run[r].i = 2
    /\ hist[r].out[1].ok /\ hist[r].out[1].threw
    /\ hist[r].out[1].returned = 2
    /\ run[r].totalInserted = 1 /\ run[r].totalCategorized = 1
    /\ run[r].totalFetched = 2
    /\ Len(ItemErrors(run[r])) = 1
    /\ Len(transactions) >= 1

=============================================================================
